---- MODULE Spec2Model ----
(***************************************************************************)
(* A model of pythrottle: the Throttle interval clock, the throttle /      *)
(* athrottle call-rate decorators and the loop / aloop generators.         *)
(*                                                                         *)
(* Time is the reading of perf_counter(), modelled as an integer number of *)
(* clock units (exact arithmetic: floating-point rounding is not           *)
(* modelled).  Every perf_counter() call of the code is a separate         *)
(* reading: between two readings made by one call, up to MaxLag units may  *)
(* pass, and sleep() may return up to MaxLag units late.                   *)
(***************************************************************************)
EXTENDS Integers, Sequences, FiniteSets, TLC

VARIABLES
    now,        \* the latest reading of perf_counter()
    th,         \* a Throttle instance: [interval, t_start, ticks]
    pending,    \* per task: the await_next call suspended in asyncio.sleep
    last,       \* history: the latest Throttle operation, with its pre-state
    t0,         \* history: the reference the first timing call set
    nwaits,     \* history: the wait_next/await_next calls started
    ntrue,      \* history: the polls that returned true
    run,        \* history: the polls made since time last passed
    snap,       \* history: the latest inexact reset of the reference
    lim,        \* the closure of one throttle(...) / athrottle(...) call
    lim2,       \* the closure of a second such call, None when there is none
    susp,       \* per task: the awrapper call suspended in await_next
    calls,      \* history: the calls of the wrapped function, in order
    gen,        \* a generator made by Throttle.loop / Throttle.aloop
    yielded,    \* history: the values the generator has yielded
    runs,       \* history: the generators iterated, in order
    waited,     \* history: the wait_next / await_next calls, in order
    meter,      \* a RateMeter instance: [interval, _times, _iters]
    mlast,      \* history: the latest RateMeter operation
    feed,       \* the loop that feeds the meter at a constant rate
    since,      \* history: the operations since the latest restart()
    twin,       \* the suspending twins of th, lim and gen, run in step
    met,        \* a Metronome instance and the task suspended on it
    mop         \* history: the latest Metronome operation

hist == <<t0, nwaits, ntrue, run, snap, waited, since>>
clock == <<th, pending, last>>
limiter == <<lim, lim2, susp, calls>>
looper == <<gen, yielded, runs>>
rater == <<meter, mlast, feed>>
extra == <<twin, met, mop>>
notClock == <<limiter, looper, rater, extra>>
vars == <<now, clock, hist, limiter, looper, rater, extra>>

-----------------------------------------------------------------------------
(* Bounds of the model *)

\* the clock readings explored: 0 .. MaxTime
MaxTime == 6
\* the intervals explored: 1 .. MaxInterval
MaxInterval == 2
\* the most time that passes between two clock readings of one call, and
\* the most a sleep oversleeps
MaxLag == 1
\* the number of tasks of the event loop
MaxTasks == 2

\* the limits explored: 1 .. MaxLimit
MaxLimit == 2
\* the number of calls of a wrapped function
MaxCalls == 4
\* the number of calls of a function decorated with wait=True
MaxBlocking == 3
\* the number of calls of a function under two decorators
MaxStacked == 3
\* the max_ticks and duration arguments explored: 0 .. MaxTicks
MaxTicks == 3
\* the number of generators made, one after the other
MaxLoops == 2
\* the number of wait_next / await_next calls of the tasks specification
MaxWaits == 2
\* the clock readings a RateMeter is operated at: 0 .. MaxReading
MaxReading == 4
\* the intervals of a RateMeter explored: 1 .. MaxWindow
MaxWindow == 2
\* the iteration numbers passed to RateMeter.update: 0 .. MaxValue
MaxValue == 1
\* the most samples a RateMeter holds when update is called
MaxSamples == 3
\* the iterations of the loop that feeds a RateMeter at a constant rate
MaxIters == 12
\* that loop passes its iteration number to update every Stride iterations
Stride == 5

Intervals == 1..MaxInterval
Lags == 0..MaxLag
Tasks == 1..MaxTasks

-----------------------------------------------------------------------------
(* Optional values: None, or Some(v) *)

None == << >>
Some(v) == <<v>>
Val(o) == o[1]

-----------------------------------------------------------------------------
(* class Throttle *)

\* mutant of restart: the tick count is kept
restart_keeps_ticks(self) == [self EXCEPT !.t_start = None]

\* Throttle.restart
restart(self) == [self EXCEPT !.t_start = None, !.ticks = 0]

\* Throttle.__init__
Throttle(interval) ==
    restart([interval |-> interval, t_start |-> None, ticks |-> 0])

\* mutant of _check: the reference is set without the call of restart()
_check_keeps_ticks(self, t) ==
    IF self.t_start = None
    THEN [self EXCEPT !.t_start = Some(t)]
    ELSE self

\* Throttle._check; t is the reading of perf_counter() it makes
_check(self, t) ==
    IF self.t_start = None
    THEN [restart(self) EXCEPT !.t_start = Some(t)]
    ELSE self

\* mutant of interval_elapsed: a strict comparison
interval_elapsed_strict(self, t) == t - Val(self.t_start) > self.interval

\* the comparison of Throttle.elapsed; t is the reading of perf_counter()
interval_elapsed(self, t) == t - Val(self.t_start) >= self.interval

\* mutant of reset_reference: an exact reset jumps to the latest boundary
\* that has passed
reset_reference_catch_up(self, exact, t) ==
    IF exact
    THEN [self EXCEPT !.t_start =
             Some(Val(@) + ((t - Val(@)) \div self.interval) * self.interval)]
    ELSE [self EXCEPT !.t_start = Some(t)]

\* mutant of reset_reference: exact is ignored, every reset is exact
reset_reference_exact_only(self, exact, t) ==
    [self EXCEPT !.t_start = Some(Val(@) + self.interval)]

\* mutant of reset_reference: an exact reset moves the reference back by
\* one interval
reset_reference_rewind(self, exact, t) ==
    IF exact
    THEN [self EXCEPT !.t_start = Some(Val(@) - self.interval)]
    ELSE [self EXCEPT !.t_start = Some(t)]

\* the update of the time reference Throttle.elapsed makes when the interval
\* has elapsed and auto_reset is set; t is the reading of perf_counter()
reset_reference(self, exact, t) ==
    IF exact
    THEN [self EXCEPT !.t_start = Some(Val(@) + self.interval)]
    ELSE [self EXCEPT !.t_start = Some(t)]

\* mutant of elapsed: auto_reset is ignored and the reference always updated
elapsed_always_resets(self, auto_reset, exact, t1, t2, t3) ==
    LET s1 == _check(self, t1)
        ret == interval_elapsed(s1, t2)
    IN  [self |-> IF ret
                  THEN reset_reference([s1 EXCEPT !.ticks = @ + 1], exact, t3)
                  ELSE s1,
         ret |-> ret]

\* Throttle.elapsed; t1, t2, t3 are the readings of perf_counter() made by
\* _check, by the comparison and by the inexact reset
elapsed(self, auto_reset, exact, t1, t2, t3) ==
    LET s1 == _check(self, t1)
        ret == interval_elapsed(s1, t2)
    IN  [self |-> IF ret /\ auto_reset
                  THEN reset_reference([s1 EXCEPT !.ticks = @ + 1], exact, t3)
                  ELSE s1,
         ret |-> ret]

\* mutant of next_target: a late call moves the reference to the current time
next_target_drift(self, t1, t2) ==
    LET s1 == _check(self, t1)
        t_target == Val(s1.t_start) + s1.interval
    IN  [self |-> [s1 EXCEPT !.t_start =
                      Some(IF t2 > t_target THEN t2 ELSE t_target)],
         t_target |-> t_target,
         sleep_time |-> t_target - t2]

\* the part of wait_next / await_next before the sleep: the target, the
\* advance of the time reference and the sleep time; t1 and t2 are the
\* readings of perf_counter() made by _check and for the sleep time
next_target(self, t1, t2) ==
    LET s1 == _check(self, t1)
        t_target == Val(s1.t_start) + s1.interval
    IN  [self |-> [s1 EXCEPT !.t_start = Some(Val(@) + s1.interval)],
         t_target |-> t_target,
         sleep_time |-> t_target - t2]

\* mutant of count_tick: the increment is lost
count_tick_lost(self) == self

\* the tick wait_next / await_next counts after its sleep
count_tick(self) == [self EXCEPT !.ticks = @ + 1]

\* mutant of cancelled: the advance of the time reference is rolled back
cancelled_rolls_back(self) ==
    [self EXCEPT !.t_start = Some(Val(@) - self.interval)]

\* mutant of cancelled: the tick is counted all the same
cancelled_counts_tick(self) == count_tick(self)

\* what is left of the Throttle when the asyncio.sleep of await_next raises
\* CancelledError: the statement after the await is not reached
cancelled(self) == self

\* mutant of wait_next: the sleep is skipped
wait_next_no_sleep(self, t1, t2, over) ==
    LET w == next_target(self, t1, t2)
    IN  [self |-> count_tick(w.self), t_target |-> w.t_target, wake |-> t2]

\* mutant of wait_next: a call whose target has passed returns at once,
\* before the tick is counted
wait_next_late_returns(self, t1, t2, over) ==
    LET w == next_target(self, t1, t2)
    IN  [self |-> IF w.sleep_time > 0 THEN count_tick(w.self) ELSE w.self,
         t_target |-> w.t_target,
         wake |-> IF w.sleep_time > 0 THEN t2 + w.sleep_time + over ELSE t2]

\* Throttle.wait_next; over is the time sleep() oversleeps
wait_next(self, t1, t2, over) ==
    LET w == next_target(self, t1, t2)
    IN  [self |-> count_tick(w.self),
         t_target |-> w.t_target,
         wake |-> IF w.sleep_time > 0 THEN t2 + w.sleep_time + over ELSE t2]

\* mutant of await_next: the task is suspended before the time reference is
\* advanced
await_next_unadvanced(self, t1, t2) ==
    LET w == next_target(self, t1, t2)
    IN  [self |-> _check(self, t1),
         t_target |-> w.t_target,
         wake |-> IF w.sleep_time > 0 THEN t2 + w.sleep_time ELSE t2]

\* mutant of await_next: the target is one interval after the current
\* time, and the reference is moved there
await_next_from_now(self, t1, t2) ==
    LET s1 == _check(self, t1)
    IN  [self |-> [s1 EXCEPT !.t_start = Some(t2 + s1.interval)],
         t_target |-> t2 + s1.interval,
         wake |-> t2 + s1.interval]

\* Throttle.await_next up to its suspension in asyncio.sleep, which ends no
\* earlier than wake (asyncio.sleep suspends the task even for a delay <= 0)
await_next(self, t1, t2) ==
    LET w == next_target(self, t1, t2)
    IN  [self |-> w.self,
         t_target |-> w.t_target,
         wake |-> IF w.sleep_time > 0 THEN t2 + w.sleep_time ELSE t2]

-----------------------------------------------------------------------------
(* throttle and athrottle *)

\* the kinds of on_fail argument: a plain value, a function, a coroutine
\* function, an object with __call__
OnFailKinds == {"value", "function", "coroutine_function", "callable_object"}

\* throttle(limit, interval, wait, on_fail): the variables of its closure
throttle(limit, interval, wait, on_fail) ==
    [deco |-> "throttle", limit |-> limit, wait |-> wait, on_fail |-> on_fail,
     call_counter |-> 0, throttle_ |-> Throttle(interval)]

\* athrottle(limit, interval, wait, on_fail): the variables of its closure
athrottle(limit, interval, wait, on_fail) ==
    [deco |-> "athrottle", limit |-> limit, wait |-> wait,
     on_fail |-> on_fail, call_counter |-> 0, throttle_ |-> Throttle(interval)]

\* mutant of limit_exceeded: the limit is reached one call early
limit_exceeded_early(c, call_counter) == call_counter >= c.limit

\* the test wrapper / awrapper makes when no interval has elapsed
limit_exceeded(c, call_counter) == call_counter > c.limit

\* what throttle's wrapper returns when the limit is exceeded
on_fail_result(c) ==
    IF c.on_fail = "value" THEN "on_fail" ELSE "on_fail()"

\* what athrottle's awrapper returns when the limit is exceeded
on_fail_aresult(c) ==
    IF c.on_fail = "coroutine_function" THEN "await on_fail()"
    ELSE IF c.on_fail = "function" THEN "on_fail()"
    ELSE "on_fail"

\* throttle.decorator.wrapper: t1, t2 are the readings of perf_counter()
\* made by elapsed(), t4 the one made by wait_next(), over the time its
\* sleep() oversleeps; at is the time the call returns or calls func
wrapper(c, t1, t2, t4, over) ==
    LET e == elapsed(c.throttle_, TRUE, TRUE, t1, t2, t2)
        w == wait_next(e.self, t4, t4, over)
    IN  IF e.ret
        THEN [c |-> [c EXCEPT !.call_counter = 1, !.throttle_ = e.self],
              result |-> "func()", at |-> t2]
        ELSE IF limit_exceeded(c, c.call_counter + 1)
        THEN IF c.wait
             THEN [c |-> [c EXCEPT !.call_counter = 1, !.throttle_ = w.self],
                   result |-> "func()", at |-> w.wake]
             ELSE [c |-> [c EXCEPT !.call_counter = @ + 1,
                                   !.throttle_ = e.self],
                   result |-> on_fail_result(c), at |-> t2]
        ELSE [c |-> [c EXCEPT !.call_counter = @ + 1, !.throttle_ = e.self],
              result |-> "func()", at |-> t2]

\* athrottle.decorator.awrapper up to its return or to its suspension in
\* await_next ("suspended", which ends no earlier than wake)
awrapper(c, t1, t2, t4) ==
    LET e == elapsed(c.throttle_, TRUE, TRUE, t1, t2, t2)
        w == await_next(e.self, t4, t4)
    IN  IF e.ret
        THEN [c |-> [c EXCEPT !.call_counter = 1, !.throttle_ = e.self],
              result |-> "func()", wake |-> t2]
        ELSE IF limit_exceeded(c, c.call_counter + 1)
        THEN IF c.wait
             THEN [c |-> [c EXCEPT !.call_counter = @ + 1,
                                   !.throttle_ = w.self],
                   result |-> "suspended", wake |-> w.wake]
             ELSE [c |-> [c EXCEPT !.call_counter = @ + 1,
                                   !.throttle_ = e.self],
                   result |-> on_fail_aresult(c), wake |-> t2]
        ELSE [c |-> [c EXCEPT !.call_counter = @ + 1, !.throttle_ = e.self],
              result |-> "func()", wake |-> t2]

\* awrapper after its await_next: the tick is counted, the counter reset
awrapper_resumed(c) ==
    [c EXCEPT !.call_counter = 1, !.throttle_ = count_tick(@)]

-----------------------------------------------------------------------------
(* Throttle.loop and Throttle.aloop *)

\* mutant of ceil_div: the quotient is rounded down
ceil_div_floor(duration, interval) == duration \div interval

\* math.ceil(duration / interval), in exact arithmetic
ceil_div(duration, interval) == (duration + interval - 1) \div interval

\* mutant of _check_loop_params: _check runs before the arguments are
\* looked at
_check_loop_params_check_first(self, duration, max_ticks, t) ==
    IF max_ticks # None /\ duration # None
    THEN [raised |-> TRUE, self |-> _check(self, t), max_ticks |-> max_ticks]
    ELSE [raised |-> FALSE, self |-> _check(self, t),
          max_ticks |-> IF duration # None
                        THEN Some(ceil_div(Val(duration), self.interval))
                        ELSE max_ticks]

\* Throttle._check_loop_params; t is the reading of perf_counter() _check
\* makes; raised when it raises ValueError
_check_loop_params(self, duration, max_ticks, t) ==
    IF max_ticks # None /\ duration # None
    THEN [raised |-> TRUE, self |-> self, max_ticks |-> max_ticks]
    ELSE [raised |-> FALSE, self |-> _check(self, t),
          max_ticks |-> IF duration # None
                        THEN Some(ceil_div(Val(duration), self.interval))
                        ELSE max_ticks]

\* mutant of loop_continues: one iteration more
loop_continues_once_more(g) ==
    g.max_ticks = None \/ g.ticks <= Val(g.max_ticks)

\* the test of the while loop of loop / aloop
loop_continues(g) == g.max_ticks = None \/ g.ticks < Val(g.max_ticks)

\* a generator that has not run yet: the arguments of the loop / aloop call
\* that made it, and the local variables of its frame; nth numbers the
\* generators, first is the Throttle and started the time when the first
\* value was asked for
generator(kind, max_ticks, duration) ==
    [kind |-> kind, state |-> "created", nth |-> 0,
     arg_max_ticks |-> max_ticks, arg_duration |-> duration,
     max_ticks |-> None, ticks |-> 0,
     waits |-> 0, wake |-> 0, first |-> Throttle(1), started |-> 0]

\* mutant of loop_start: both arguments are accepted, max_ticks winning
loop_start_lenient(g, self, t) ==
    LET p == _check_loop_params(self, None, g.arg_max_ticks, t)
    IN  [g |-> [g EXCEPT !.state = "running", !.max_ticks = p.max_ticks,
                         !.ticks = 0, !.first = self, !.started = t],
         self |-> p.self]

\* the body of loop / aloop from its start to the while loop; t is the
\* reading of perf_counter() _check makes
loop_start(g, self, t) ==
    LET p == _check_loop_params(self, g.arg_duration, g.arg_max_ticks, t)
    IN  IF p.raised
        THEN [g |-> [g EXCEPT !.state = "raised", !.first = self,
                              !.started = t],
              self |-> p.self]
        ELSE [g |-> [g EXCEPT !.state = "running", !.max_ticks = p.max_ticks,
                              !.ticks = 0, !.first = self, !.started = t],
              self |-> p.self]

\* the body of loop / aloop resumed after a yield
loop_resume(g) == [g EXCEPT !.state = "running", !.ticks = @ + 1]

\* one pass of the while loop of loop, up to the yield or to the end of
\* the generator; t2 is the reading wait_next makes, over the time its
\* sleep() oversleeps
loop_pass(g, self, t2, over) ==
    LET w == wait_next(self, t2, t2, over)
    IN  IF loop_continues(g)
        THEN [g |-> [g EXCEPT !.state = "yielded", !.waits = @ + 1],
              self |-> w.self, wake |-> w.wake, yields |-> <<g.ticks>>]
        ELSE [g |-> [g EXCEPT !.state = "finished"],
              self |-> self, wake |-> t2, yields |-> << >>]

\* one pass of the while loop of aloop, up to its suspension in await_next
\* ("waiting", which ends no earlier than wake) or to the end of the
\* generator
aloop_pass(g, self, t2) ==
    LET w == await_next(self, t2, t2)
    IN  IF loop_continues(g)
        THEN [g |-> [g EXCEPT !.state = "waiting", !.waits = @ + 1,
                              !.wake = w.wake],
              self |-> w.self]
        ELSE [g |-> [g EXCEPT !.state = "finished"], self |-> self]

-----------------------------------------------------------------------------
(* class RateMeter *)

\* RateMeter.__init__
RateMeter(interval) ==
    [interval |-> interval, _times |-> << >>, _iters |-> << >>]

\* mutant of RateMeter_restart: the iteration numbers are kept
RateMeter_restart_times_only(self) == [self EXCEPT !._times = << >>]

\* RateMeter.restart
RateMeter_restart(self) == [self EXCEPT !._times = << >>, !._iters = << >>]

\* the loop of bisect.bisect_left on a[lo:hi], indices counted from 0
RECURSIVE bisect(_, _, _, _)
bisect(a, x, lo, hi) ==
    IF lo < hi
    THEN LET mid == (lo + hi) \div 2
         IN  IF a[mid + 1] < x THEN bisect(a, x, mid + 1, hi)
                               ELSE bisect(a, x, lo, mid)
    ELSE lo

\* mutant of bisect_left: bisect.bisect_right
bisect_right(a, x) == Cardinality({i \in DOMAIN a : a[i] <= x})

\* bisect.bisect_left(a, x)
bisect_left(a, x) == bisect(a, x, 0, Len(a))

\* deque.count(x)
count(a, x) == Cardinality({i \in DOMAIN a : a[i] = x})

\* n times deque.popleft(); range(n) is empty for n <= 0
popleft(a, n) == IF n > 0 THEN SubSeq(a, n + 1, Len(a)) ELSE a

\* mutant of first_time_index: every entry older than the interval goes
first_time_index_no_keep(self) ==
    bisect_left(self._times,
                self._times[Len(self._times)] - self.interval)

\* mutant of first_time_index: the entry before the cutoff is kept even
\* when an entry matches the cutoff
first_time_index_always_keep(self) ==
    bisect_left(self._times,
                self._times[Len(self._times)] - self.interval) - 1

\* the number of entries RateMeter._remove_past_items removes
first_time_index(self) ==
    LET first_time_value == self._times[Len(self._times)] - self.interval
        index == bisect_left(self._times, first_time_value)
    IN  IF count(self._times, first_time_value) = 0 THEN index - 1
                                                    ELSE index

\* mutant of _remove_past_items: the values are left in place
_remove_past_items_times_only(self) ==
    [self EXCEPT !._times = popleft(@, first_time_index(self))]

\* RateMeter._remove_past_items
_remove_past_items(self) ==
    [self EXCEPT !._times = popleft(@, first_time_index(self)),
                 !._iters = popleft(@, first_time_index(self))]

\* mutant of iter_num_stored: the default is the number of samples held
iter_num_counts_samples(self, iter_num) ==
    IF iter_num = None THEN Len(self._iters) ELSE Val(iter_num)

\* the value RateMeter.update stores; iter_num is None or Some(v)
iter_num_stored(self, iter_num) ==
    IF iter_num = None
    THEN IF Len(self._iters) > 0 THEN self._iters[Len(self._iters)] + 1
                                 ELSE 0
    ELSE Val(iter_num)

\* the two appends of RateMeter.update; t is the reading of perf_counter()
appended(self, iter_num, t) ==
    [self EXCEPT !._times = Append(@, t),
                 !._iters = Append(@, iter_num_stored(self, iter_num))]

\* RateMeter.update
update(self, iter_num, t) == _remove_past_items(appended(self, iter_num, t))

\* the greatest common divisor of two naturals
RECURSIVE gcd(_, _)
gcd(a, b) == IF b = 0 THEN a ELSE gcd(b, a % b)

abs(x) == IF x < 0 THEN 0 - x ELSE x

\* the quotient n / d of exact arithmetic, d > 0, in lowest terms
quotient(n, d) ==
    [num |-> n \div gcd(abs(n), d), den |-> d \div gcd(abs(n), d)]

\* the number 0 as a quotient
zero == [num |-> 0, den |-> 1]

\* mutant of rate: the last two samples are compared
rate_last_pair(self) ==
    IF Len(self._times) <= 1
    THEN zero
    ELSE LET n == Len(self._times)
             value_diff == self._iters[n] - self._iters[n - 1]
             time_diff == self._times[n] - self._times[n - 1]
         IN  IF time_diff = 0 THEN zero ELSE quotient(value_diff, time_diff)

\* mutant of rate: the difference is divided by the interval
rate_by_interval(self) ==
    IF Len(self._times) <= 1
    THEN zero
    ELSE LET value_diff == self._iters[Len(self._iters)] - self._iters[1]
             time_diff == self._times[Len(self._times)] - self._times[1]
         IN  IF time_diff = 0 THEN zero
                              ELSE quotient(value_diff, self.interval)

\* mutant of rate: the span is measured up to the current time
rate_up_to_now(self) ==
    IF Len(self._times) <= 1
    THEN zero
    ELSE LET value_diff == self._iters[Len(self._iters)] - self._iters[1]
             time_diff == now - self._times[1]
         IN  IF time_diff = 0 THEN zero ELSE quotient(value_diff, time_diff)

\* RateMeter.rate
rate(self) ==
    IF Len(self._times) <= 1
    THEN zero
    ELSE LET value_diff == self._iters[Len(self._iters)] - self._iters[1]
             time_diff == self._times[Len(self._times)] - self._times[1]
         IN  IF time_diff = 0 THEN zero ELSE quotient(value_diff, time_diff)

-----------------------------------------------------------------------------
(* class Metronome *)

\* Metronome.restart
Metronome_restart(self) == [self EXCEPT !.t_start = None, !.ticks = 0]

\* Metronome.__init__; interval is None or Some(i)
Metronome(interval) ==
    Metronome_restart([interval |-> interval, t_start |-> None, ticks |-> 0])

\* the truth value of an optional number: None and 0 are false
truthy(o) == o # None /\ Val(o) # 0

\* mutant of _get_interval_and_check: the time reference is initialized
\* before the interval is looked at
_get_interval_and_check_init_first(self, interval, t) ==
    LET chosen == IF truthy(interval) THEN interval ELSE self.interval
        s1 == IF self.t_start = None
              THEN [Metronome_restart(self) EXCEPT !.t_start = Some(t)]
              ELSE self
    IN  IF ~truthy(chosen)
        THEN [raised |-> TRUE, self |-> s1, interval |-> 0]
        ELSE [raised |-> FALSE, self |-> s1, interval |-> Val(chosen)]

\* Metronome._get_interval_and_check; t is the reading of perf_counter()
_get_interval_and_check(self, interval, t) ==
    LET chosen == IF truthy(interval) THEN interval ELSE self.interval
    IN  IF ~truthy(chosen)
        THEN [raised |-> TRUE, self |-> self, interval |-> 0]
        ELSE [raised |-> FALSE,
              self |-> IF self.t_start = None
                       THEN [Metronome_restart(self) EXCEPT
                                !.t_start = Some(t)]
                       ELSE self,
              interval |-> Val(chosen)]

\* Metronome.elapsed; t1, t2, t3 are the readings of perf_counter()
Metronome_elapsed(self, seconds, auto_reset, exact, t1, t2, t3) ==
    LET g == _get_interval_and_check(self, seconds, t1)
        ret == t2 - Val(g.self.t_start) >= g.interval
    IN  IF g.raised
        THEN [raised |-> TRUE, self |-> g.self, ret |-> FALSE]
        ELSE [raised |-> FALSE,
              self |-> IF ret /\ auto_reset
                       THEN [g.self EXCEPT
                                !.ticks = @ + 1,
                                !.t_start = IF exact
                                            THEN Some(Val(@) + g.interval)
                                            ELSE Some(t3)]
                       ELSE g.self,
              ret |-> ret]

\* Metronome.sleep_until_available and wait_until_available up to the
\* sleep: the target, the advance of the reference and the time to sleep
next_available(self, seconds, t1, t2) ==
    LET g == _get_interval_and_check(self, seconds, t1)
        t_target == Val(g.self.t_start) + g.interval
    IN  IF g.raised
        THEN [raised |-> TRUE, self |-> g.self, t_target |-> 0,
              sleep_time |-> 0]
        ELSE [raised |-> FALSE,
              self |-> [g.self EXCEPT !.t_start = Some(t_target)],
              t_target |-> t_target, sleep_time |-> t_target - t2]

\* Metronome.sleep_until_available; over is the time sleep() oversleeps
sleep_until_available(self, seconds, t1, t2, over) ==
    LET w == next_available(self, seconds, t1, t2)
    IN  IF w.raised
        THEN [raised |-> TRUE, self |-> w.self, wake |-> t1]
        ELSE [raised |-> FALSE,
              self |-> [w.self EXCEPT !.ticks = @ + 1],
              wake |-> IF w.sleep_time > 0 THEN t2 + w.sleep_time + over
                                           ELSE t2]

\* Metronome.wait_until_available up to its suspension in asyncio.sleep,
\* which ends no earlier than wake
wait_until_available(self, seconds, t1, t2) ==
    LET w == next_available(self, seconds, t1, t2)
    IN  IF w.raised
        THEN [raised |-> TRUE, self |-> w.self, wake |-> t1]
        ELSE [raised |-> FALSE, self |-> w.self,
              wake |-> IF w.sleep_time > 0 THEN t2 + w.sleep_time ELSE t2]

\* the first retrieval from Metronome.sleep_loop(seconds, max_ticks): to the
\* ValueError, to the end of the generator or to its first yield
sleep_loop(self, seconds, max_ticks, t1, t2, over) ==
    LET g == _get_interval_and_check(self, seconds, t1)
        w == sleep_until_available(g.self, Some(g.interval), t2, t2, over)
    IN  IF g.raised
        THEN [raised |-> TRUE, self |-> g.self, wake |-> t1, yields |-> << >>]
        ELSE IF max_ticks = None \/ 0 < Val(max_ticks)
        THEN [raised |-> FALSE, self |-> w.self, wake |-> w.wake,
              yields |-> <<IF truthy(max_ticks) THEN 1 ELSE 0>>]
        ELSE [raised |-> FALSE, self |-> g.self, wake |-> t1,
              yields |-> << >>]

\* the first retrieval from Metronome.wait_loop(seconds, max_ticks): to the
\* ValueError, to the end of the generator or to its suspension in
\* wait_until_available
wait_loop(self, seconds, max_ticks, t1, t2) ==
    LET g == _get_interval_and_check(self, seconds, t1)
        w == wait_until_available(g.self, Some(g.interval), t2, t2)
    IN  IF g.raised
        THEN [raised |-> TRUE, self |-> g.self, wake |-> t1,
              suspended |-> FALSE]
        ELSE IF max_ticks = None \/ 0 < Val(max_ticks)
        THEN [raised |-> FALSE, self |-> w.self, wake |-> w.wake,
              suspended |-> TRUE]
        ELSE [raised |-> FALSE, self |-> g.self, wake |-> t1,
              suspended |-> FALSE]

-----------------------------------------------------------------------------
(* History records *)

\* the operations on th since the latest restart() call of a client (begun,
\* checked, trues, waits), the ticks since the latest execution of
\* restart(), by a client or by _check (itrues, iwaits), and the operations
\* since construction (n)
NoSince == [begun |-> 0, checked |-> 0, trues |-> 0, waits |-> 0,
            itrues |-> 0, iwaits |-> 0, n |-> 0]

NoMet == [self |-> Metronome(None), task |-> None]

NoMetOp == [op |-> "none", pre |-> Metronome(None), seconds |-> None,
            raised |-> FALSE, t |-> 0, back |-> 0, n |-> 0]

NoMeterOp == [op |-> "none", pre |-> RateMeter(1), arg |-> None, t |-> 0,
              ret |-> zero, trimmed |-> FALSE, restarted |-> FALSE,
              again |-> FALSE]

NoFeed == [spacing |-> 0, every |-> 0, i |-> 0, updates |-> 0,
           updated |-> FALSE]

NoGen == [generator("loop", None, None) EXCEPT !.state = "none"]

\* the suspending twins of th, lim and gen with what gen's twin has yielded,
\* the wake target and the result of the latest call of the twin (target,
\* result) and of the blocking variant (btarget, bresult), and the number
\* of waits, decorated calls and retrievals made
NoTwin == [th |-> Throttle(1), lim |-> athrottle(1, 1, FALSE, "value"),
           gen |-> [NoGen EXCEPT !.kind = "aloop"], yielded |-> << >>,
           op |-> "none", target |-> 0, btarget |-> 0,
           result |-> "none", bresult |-> "none", n |-> 0]

NoOp == [op |-> "none", pre |-> Throttle(1), ret |-> FALSE,
         auto_reset |-> FALSE, exact |-> FALSE,
         t1 |-> 0, t2 |-> 0, t3 |-> 0, t_target |-> 0]

NoRun == [at |-> 0, d |-> 0, ref |-> None, trues |-> 0, exact |-> TRUE,
          open |-> FALSE, ended |-> FALSE]

NoSnap == [at |-> None, before |-> None]

\* the readings a call makes: the first is the current time; _check reads
\* the clock only when the reference is unset
FirstReads(self) ==
    IF self.t_start = None THEN {<<now, now + d>> : d \in Lags}
                           ELSE {<<now, now>>}

-----------------------------------------------------------------------------
(* The clock: operations of one Throttle instance *)

InitClock ==
    /\ now = 0
    /\ th \in {Throttle(i) : i \in Intervals}
    /\ pending = [k \in Tasks |-> None]
    /\ last = NoOp
    /\ t0 = None
    /\ nwaits = 0
    /\ ntrue = 0
    /\ run = NoRun
    /\ snap = NoSnap
    /\ lim = throttle(1, 1, FALSE, "value")
    /\ lim2 = None
    /\ susp = [k \in Tasks |-> None]
    /\ calls = << >>
    /\ gen = NoGen
    /\ yielded = << >>
    /\ runs = << >>
    /\ waited = << >>
    /\ since = NoSince
    /\ twin = NoTwin
    /\ met = NoMet
    /\ mop = NoMetOp
    /\ meter = RateMeter(1)
    /\ mlast = NoMeterOp
    /\ feed = NoFeed

\* time passes
Advance ==
    /\ now < MaxTime
    /\ now' = now + 1
    /\ UNCHANGED <<th, pending, last>>

\* a call of Throttle.elapsed(auto_reset, exact)
Elapsed(auto_reset, exact) ==
    \E rd \in FirstReads(th), d3 \in Lags :
        LET t3 == rd[2] + d3
            r == elapsed(th, auto_reset, exact, rd[1], rd[2], t3)
            snaps == r.ret /\ auto_reset /\ ~exact
        IN  /\ (d3 > 0 => snaps)
            /\ t3 <= MaxTime
            /\ th' = r.self
            /\ now' = t3
            /\ last' = [op |-> "elapsed", pre |-> th, ret |-> r.ret,
                        auto_reset |-> auto_reset, exact |-> exact,
                        t1 |-> rd[1], t2 |-> rd[2], t3 |-> t3,
                        t_target |-> 0]
            /\ UNCHANGED pending

\* a call of Throttle.wait_next, which blocks the thread until it returns
WaitNext ==
    \E rd \in FirstReads(th), over \in Lags :
        LET r == wait_next(th, rd[1], rd[2], over)
        IN  /\ (over > 0 => r.t_target > rd[2])
            /\ r.wake <= MaxTime
            /\ th' = r.self
            /\ now' = r.wake
            /\ last' = [op |-> "wait_next", pre |-> th, ret |-> FALSE,
                        auto_reset |-> FALSE, exact |-> FALSE,
                        t1 |-> rd[1], t2 |-> rd[2], t3 |-> r.wake,
                        t_target |-> r.t_target]
            /\ UNCHANGED pending

\* task k calls Throttle.await_next and is suspended in asyncio.sleep
AwaitNext(k) ==
    /\ pending[k] = None
    /\ \E rd \in FirstReads(th) :
        LET r == await_next(th, rd[1], rd[2])
        IN  /\ r.t_target <= MaxTime
            /\ th' = r.self
            /\ now' = rd[2]
            /\ pending' = [pending EXCEPT ![k] =
                              Some([t_target |-> r.t_target, wake |-> r.wake])]
            /\ last' = [op |-> "await_next", pre |-> th, ret |-> FALSE,
                        auto_reset |-> FALSE, exact |-> FALSE,
                        t1 |-> rd[1], t2 |-> rd[2], t3 |-> rd[2],
                        t_target |-> r.t_target]

\* the asyncio.sleep of task k has ended: await_next counts its tick and
\* returns
AwaitReturn(k) ==
    /\ pending[k] # None
    /\ now >= Val(pending[k]).wake
    /\ th' = count_tick(th)
    /\ pending' = [pending EXCEPT ![k] = None]
    /\ last' = [op |-> "await_return", pre |-> th, ret |-> FALSE,
                auto_reset |-> FALSE, exact |-> FALSE,
                t1 |-> now, t2 |-> now, t3 |-> now,
                t_target |-> Val(pending[k]).t_target]
    /\ UNCHANGED now

\* task k is cancelled while suspended in the asyncio.sleep of await_next
Cancel(k) ==
    /\ pending[k] # None
    /\ th' = cancelled(th)
    /\ pending' = [pending EXCEPT ![k] = None]
    /\ last' = [op |-> "cancelled", pre |-> th, ret |-> FALSE,
                auto_reset |-> FALSE, exact |-> FALSE,
                t1 |-> now, t2 |-> now, t3 |-> now,
                t_target |-> Val(pending[k]).t_target]
    /\ UNCHANGED now

\* a call of Throttle.restart
Restart ==
    /\ th' = restart(th)
    /\ last' = [NoOp EXCEPT !.op = "restart", !.pre = th]
    /\ UNCHANGED <<now, pending>>

\* the event loop of the clock specification runs one task beside the thread
NextClock ==
    \/ Advance /\ UNCHANGED <<hist, notClock>>
    \/ \E a \in BOOLEAN, e \in BOOLEAN : Elapsed(a, e) /\ UNCHANGED <<hist, notClock>>
    \/ WaitNext /\ UNCHANGED <<hist, notClock>>
    \/ AwaitNext(1) /\ UNCHANGED <<hist, notClock>>
    \/ AwaitReturn(1) /\ UNCHANGED <<hist, notClock>>
    \/ Restart /\ UNCHANGED <<hist, notClock>>

Spec == InitClock /\ [][NextClock]_vars

\* the reference and the tick count a call works on once _check has run
RefAfterCheck(r) == IF r.pre.t_start = None THEN r.t1 ELSE Val(r.pre.t_start)
TicksAfterCheck(r) == IF r.pre.t_start = None THEN 0 ELSE r.pre.ticks

\* C3: every wait_next / await_next call computes its target as the
\* reference plus one interval and advances the reference by exactly one
\* interval before it waits, whether or not the target has passed; the call
\* does not return before the clock has reached the target.
C3_WaitTargetAdvanceAndReturn ==
    /\ last.op \in {"wait_next", "await_next"} =>
          /\ last.t_target = RefAfterCheck(last) + th.interval
          /\ th.t_start = Some(RefAfterCheck(last) + th.interval)
    /\ last.op = "await_next" =>
          /\ pending[1] # None
          /\ Val(pending[1]).t_target = last.t_target
    /\ last.op \in {"wait_next", "await_return"} => now >= last.t_target

\* a wait_next call whose target had already passed when it was made
C3_Witness ==
    /\ last.op = "wait_next"
    /\ last.pre.t_start # None
    /\ last.t_target < last.t2
    /\ th.t_start = Some(last.t_target)

\* C5: elapsed() first sets an unset reference to the current time, then
\* returns true iff now - reference >= interval; when it returns false the
\* reference and the tick count are as they were after that initialization.
C5_ElapsedResult ==
    last.op = "elapsed" =>
        /\ last.ret <=> (last.t2 - RefAfterCheck(last) >= th.interval)
        /\ ~last.ret =>
              /\ th.t_start = Some(RefAfterCheck(last))
              /\ th.ticks = TicksAfterCheck(last)

\* a first poll, which sets the reference and returns false
C5_Witness ==
    /\ last.op = "elapsed"
    /\ last.pre.t_start = None
    /\ ~last.ret
    /\ th.t_start = Some(last.t1)

\* C8 as stated: elapsed(auto_reset=false) leaves the reference and the tick
\* count exactly as they were before the call, in every clock state.
C8_PurePollChangesNothing ==
    (last.op = "elapsed" /\ ~last.auto_reset) =>
        /\ th.t_start = last.pre.t_start
        /\ th.ticks = last.pre.ticks

\* C8, amended: elapsed(auto_reset=false) leaves the reference and the tick
\* count as they were after the lazy initialization of an unset reference,
\* whichever result it returns; a set reference is left as it was before
\* the call.
C8_PurePollAfterInit ==
    (last.op = "elapsed" /\ ~last.auto_reset) =>
        /\ th.t_start = Some(RefAfterCheck(last))
        /\ th.ticks = TicksAfterCheck(last)
        /\ last.pre.t_start # None => th = last.pre

\* a poll without auto_reset that returned true
C8_Witness ==
    /\ last.op = "elapsed"
    /\ ~last.auto_reset
    /\ last.ret
    /\ last.pre.t_start # None
    /\ th = last.pre

\* the target of the latest call had been reached when the call read the
\* clock for its sleep time
LateCall == last.t_target <= last.t2

\* C31: a wait_next / await_next call whose target has already passed
\* waits for no time (wait_next returns at the reading it took, await_next
\* is suspended with nothing left to wait for), raises nothing, and still
\* advances the reference by one interval and counts one tick.
C31_LateWaitIsZeroLength ==
    /\ (last.op = "wait_next" /\ LateCall) =>
          /\ last.t3 = last.t2
          /\ th.t_start = Some(RefAfterCheck(last) + th.interval)
          /\ th.ticks = TicksAfterCheck(last) + 1
    /\ (last.op = "await_next" /\ LateCall) =>
          /\ pending[1] # None
          /\ Val(pending[1]).wake = last.t2
          /\ th.t_start = Some(RefAfterCheck(last) + th.interval)
    /\ last.op = "await_return" => th.ticks = last.pre.ticks + 1

\* a wait_next call made more than one interval late on a clock that has
\* counted ticks before
C31_Witness ==
    /\ last.op = "wait_next"
    /\ last.pre.t_start # None
    /\ last.pre.ticks >= 1
    /\ last.t_target < last.t2
    /\ last.t3 = last.t2
    /\ th.ticks = last.pre.ticks + 1
    /\ th.t_start = Some(last.t_target)

\* one step of the clock as C35 describes it: the reference the step works
\* on (the one it found, or the reading _check stored in an unset one) is
\* left alone, advanced by exactly one interval by a wait or an exact
\* reset, or replaced by the current reading by an inexact reset made when
\* at least one interval had elapsed
ReferenceStep ==
    th'.t_start # None =>
        LET ref == IF th.t_start = None THEN last'.t1 ELSE Val(th.t_start)
            new == Val(th'.t_start)
            resets == last'.op = "elapsed" /\ last'.auto_reset /\ last'.ret
        IN  /\ new >= ref
            /\ new # ref =>
                  \/ /\ new = ref + th.interval
                     /\ \/ last'.op \in {"wait_next", "await_next"}
                        \/ resets /\ last'.exact
                  \/ /\ resets /\ ~last'.exact
                     /\ new = last'.t3
                     /\ last'.t2 - ref >= th.interval

\* C35: between restarts the reference never decreases: every change is
\* exactly +interval (exact poll, wait_next, await_next) or a jump to the
\* current time made only when now - reference >= interval (inexact poll).
C35_ReferenceNeverDecreases == [][ReferenceStep]_vars

\* an inexact poll that moved a set reference forward by more than one
\* interval, to the reading it took
C35_Witness ==
    /\ last.op = "elapsed"
    /\ last.auto_reset /\ ~last.exact /\ last.ret
    /\ last.pre.t_start # None
    /\ th.t_start = Some(last.t3)
    /\ last.t3 - Val(last.pre.t_start) > th.interval

-----------------------------------------------------------------------------
(* A fresh clock operated only through wait_next and await_next *)

\* the history of a wait_next / await_next call that has just started
WaitStarted ==
    /\ t0' = IF th.t_start = None THEN Some(last'.t1) ELSE t0
    /\ nwaits' = nwaits + 1
    /\ UNCHANGED <<ntrue, run, snap, waited, since>>

NextWait ==
    \/ Advance /\ UNCHANGED <<hist, notClock>>
    \/ WaitNext /\ WaitStarted /\ UNCHANGED notClock
    \/ \E k \in Tasks : AwaitNext(k) /\ WaitStarted /\ UNCHANGED notClock
    \/ \E k \in Tasks : AwaitReturn(k) /\ UNCHANGED <<hist, notClock>>

SpecWait == InitClock /\ [][NextWait]_vars

\* C4: on a fresh clock operated only through wait_next / await_next the
\* target of the k-th call is exactly t0 + k * interval, t0 being the
\* reference the first call set, however late earlier calls woke up and
\* however much time passed between the calls.
C4_DriftFree ==
    /\ last.op \in {"wait_next", "await_next"} =>
          last.t_target = Val(t0) + nwaits * th.interval
    /\ th.t_start # None =>
          th.t_start = Some(Val(t0) + nwaits * th.interval)
    /\ \A k \in Tasks : pending[k] # None =>
          \E j \in 1..nwaits :
              Val(pending[k]).t_target = Val(t0) + j * th.interval

\* a third or later call, made after the boundary the call before it
\* targeted had passed, still targets its grid point
C4_Witness ==
    /\ last.op = "wait_next"
    /\ nwaits >= 3
    /\ last.t2 > Val(last.pre.t_start)
    /\ last.t_target = Val(t0) + nwaits * th.interval

-----------------------------------------------------------------------------
(* A clock driven only by elapsed(auto_reset=True, exact=True) polls *)

\* the history of a poll that has just been made
ExactPolled ==
    /\ t0' = IF th.t_start = None THEN Some(last'.t1) ELSE t0
    /\ ntrue' = ntrue + (IF last'.ret THEN 1 ELSE 0)
    /\ UNCHANGED <<nwaits, run, snap, waited, since>>

NextExact ==
    \/ Advance /\ UNCHANGED <<hist, notClock>>
    \/ Elapsed(TRUE, TRUE) /\ ExactPolled /\ UNCHANGED notClock

SpecExact == InitClock /\ [][NextExact]_vars

\* C6: an elapsed(auto_reset=True, exact=True) call that returns true adds
\* exactly 1 to the tick count and exactly one interval to the reference,
\* however many intervals have passed; the reference stays on the grid
\* t0 + m * interval and the tick count is the number of polls that
\* returned true.
C6_ExactPollAdvancesOneInterval ==
    /\ (last.op = "elapsed" /\ last.ret) =>
          /\ th.ticks = last.pre.ticks + 1
          /\ th.t_start = Some(RefAfterCheck(last) + th.interval)
    /\ th.t_start # None =>
          \E m \in 0..MaxTime : Val(th.t_start) = Val(t0) + m * th.interval
    /\ th.ticks = ntrue

\* a poll that returned true two or more intervals after the reference
C6_Witness ==
    /\ last.op = "elapsed"
    /\ last.ret
    /\ last.pre.t_start # None
    /\ last.t2 - Val(last.pre.t_start) >= 2 * th.interval
    /\ th.t_start = Some(Val(last.pre.t_start) + th.interval)
    /\ th.ticks = ntrue

-----------------------------------------------------------------------------
(* A clock driven only by elapsed(auto_reset=True) polls, exact or not *)

\* the run of polls made since time last passed, after a poll of kind exact:
\* a run opens with a poll of a set reference, d being the delay since the
\* reference that poll read and at the time that poll ended, and it stays
\* open while the polls are of one kind
RunAfter(exact) ==
    IF th.t_start = None THEN NoRun
    ELSE IF run = NoRun
         THEN [at |-> now', d |-> last'.t2 - Val(th.t_start),
               ref |-> th.t_start, trues |-> IF last'.ret THEN 1 ELSE 0,
               exact |-> exact, open |-> TRUE, ended |-> ~last'.ret]
    ELSE IF run.open /\ run.exact = exact
         THEN [run EXCEPT !.trues = @ + (IF last'.ret THEN 1 ELSE 0),
                          !.ended = @ \/ ~last'.ret]
    ELSE [run EXCEPT !.open = FALSE]

\* the time of the latest inexact reset still in force, and the one that
\* was in force before the latest poll
SnapAfter(exact) ==
    [before |-> snap.at,
     at |-> IF ~last'.ret THEN snap.at
            ELSE IF exact THEN None ELSE Some(last'.t3)]

Polled(exact) ==
    /\ run' = RunAfter(exact)
    /\ snap' = SnapAfter(exact)
    /\ UNCHANGED <<t0, nwaits, ntrue, waited, since>>

NextPoll ==
    \/ Advance /\ run' = NoRun
               /\ UNCHANGED <<t0, nwaits, ntrue, snap, waited, since, notClock>>
    \/ \E e \in BOOLEAN : Elapsed(TRUE, e) /\ Polled(e) /\ UNCHANGED notClock

SpecPoll == InitClock /\ [][NextPoll]_vars

\* C7: after an idle delay d >= interval since the reference, exact polls
\* repeated with no time passing return true exactly d \div interval times
\* in a row and then false, the reference staying on the phase of the
\* original one; an inexact poll returns true and sets the reference to
\* the poll time, a repeated poll returns false, and the next true poll
\* comes no earlier than one interval after the inexact one.
C7_CatchUpAndPhaseReset ==
    /\ (run.open /\ run.exact /\ run.d >= th.interval) =>
          /\ run.trues <= run.d \div th.interval
          /\ run.ended => run.trues = run.d \div th.interval
          /\ th.t_start = Some(Val(run.ref) + run.trues * th.interval)
    /\ (run.open /\ ~run.exact /\ run.d >= th.interval) =>
          /\ run.trues = 1
          /\ th.t_start = Some(run.at)
    /\ snap.at # None => th.t_start = snap.at
    /\ (last.op = "elapsed" /\ last.ret /\ snap.before # None) =>
          last.t2 >= Val(snap.before) + th.interval

\* an inexact poll two or more intervals after the reference returned true
\* and a poll repeated at once returned false
C7_Witness ==
    /\ run.open
    /\ ~run.exact
    /\ run.d >= 2 * th.interval
    /\ run.ended
    /\ run.trues = 1
    /\ th.t_start = Some(run.at)

-----------------------------------------------------------------------------
(* One function decorated with throttle(...) or athrottle(...); on_fail,   *)
(* which the code reads only when wait is false, is varied only then.      *)

InitLimiter ==
    /\ now = 0
    /\ \E l \in 1..MaxLimit, i \in Intervals, w \in BOOLEAN,
          f \in OnFailKinds :
          /\ w => f = "value"
          /\ lim \in {throttle(l, i, w, f), athrottle(l, i, w, f)}
    /\ lim2 = None
    /\ susp = [k \in Tasks |-> None]
    /\ calls = << >>
    /\ th = Throttle(1)
    /\ pending = [k \in Tasks |-> None]
    /\ last = NoOp
    /\ t0 = None
    /\ nwaits = 0
    /\ ntrue = 0
    /\ run = NoRun
    /\ snap = NoSnap
    /\ gen = NoGen
    /\ yielded = << >>
    /\ runs = << >>
    /\ waited = << >>
    /\ since = NoSince
    /\ twin = NoTwin
    /\ met = NoMet
    /\ mop = NoMetOp
    /\ meter = RateMeter(1)
    /\ mlast = NoMeterOp
    /\ feed = NoFeed

\* the readings of a wrapper call: those of elapsed(), then the one of
\* wait_next() / await_next(), made only when the call goes on to wait
CallReads(c) ==
    {<<rd[1], rd[2], rd[2] + d>> : rd \in FirstReads(c.throttle_), d \in Lags}

\* the entry of a call in the history: the clock reading of the call, the
\* time it returned or called func, and its result
Called(t, at, result) ==
    calls' = Append(calls, [t |-> t, at |-> at, result |-> result])

\* the reference the first call sets; t1 is the reading _check makes
FirstCalled(t1) ==
    t0' = IF lim.throttle_.t_start = None THEN Some(t1) ELSE t0

\* a call of a function decorated with throttle(...)
Call ==
    /\ lim.deco = "throttle"
    /\ Len(calls) < MaxCalls
    /\ \E rd \in CallReads(lim), over \in Lags :
        LET r == wrapper(lim, rd[1], rd[2], rd[3], over)
            waits == r.c.throttle_.ticks # elapsed(lim.throttle_, TRUE, TRUE,
                                             rd[1], rd[2], rd[2]).self.ticks
        IN  /\ (rd[3] > rd[2] => waits)
            /\ (over > 0 => waits /\ r.at > rd[3])
            /\ r.at <= MaxTime
            /\ lim' = r.c
            /\ now' = r.at
            /\ Called(rd[2], r.at, r.result)
            /\ FirstCalled(rd[1])
            /\ UNCHANGED susp

\* task k calls a function decorated with athrottle(...)
ACall(k) ==
    /\ lim.deco = "athrottle"
    /\ susp[k] = None
    /\ Len(calls) + Cardinality({j \in Tasks : susp[j] # None}) < MaxCalls
    /\ \E rd \in CallReads(lim) :
        LET r == awrapper(lim, rd[1], rd[2], rd[3])
        IN  /\ (rd[3] > rd[2] => r.result = "suspended")
            /\ r.wake <= MaxTime
            /\ lim' = r.c
            /\ FirstCalled(rd[1])
            /\ IF r.result = "suspended"
               THEN /\ now' = rd[3]
                    /\ susp' = [susp EXCEPT ![k] =
                                  Some([t |-> rd[2], wake |-> r.wake,
                                        t_target |-> Val(r.c.throttle_.t_start)])]
                    /\ calls' = calls
               ELSE /\ now' = rd[2]
                    /\ Called(rd[2], rd[2], r.result)
                    /\ UNCHANGED susp

\* the await_next of task k has returned: awrapper calls func
AResume(k) ==
    /\ susp[k] # None
    /\ now >= Val(susp[k]).wake
    /\ lim' = awrapper_resumed(lim)
    /\ susp' = [susp EXCEPT ![k] = None]
    /\ calls' = Append(calls, [t |-> Val(susp[k]).t, at |-> now,
                               result |-> "func()"])
    /\ UNCHANGED <<now, t0>>

NextLimiter ==
    \/ Advance /\ UNCHANGED <<hist, notClock>>
    \/ Call /\ UNCHANGED <<clock, lim2, nwaits, ntrue, run, snap, waited, since, looper, rater, extra>>
    \/ \E k \in Tasks : ACall(k) /\ UNCHANGED <<clock, lim2, nwaits, ntrue, run, snap, waited, since, looper, rater, extra>>
    \/ \E k \in Tasks : AResume(k) /\ UNCHANGED <<clock, lim2, nwaits, ntrue, run, snap, waited, since, looper, rater, extra>>

SpecLimiter == InitLimiter /\ [][NextLimiter]_vars

\* the interval of the limiter's grid a time lies in: interval k is
\* [t0 + k * interval, t0 + (k + 1) * interval), t0 being the reference the
\* first call set
Grid(t) == (t - Val(t0)) \div lim.throttle_.interval

\* call i called the wrapped function
Invoked(i) == calls[i].result = "func()"

\* the position of call i among the calls of its interval
Rank(i) ==
    Cardinality({j \in 1..i : Grid(calls[j].t) = Grid(calls[i].t)})

\* every interval up to the one of the last call contains a call
EveryIntervalCalled ==
    /\ calls # << >>
    /\ \A k \in 0..Grid(calls[Len(calls)].t) :
          \E i \in DOMAIN calls : Grid(calls[i].t) = k

\* C1: with wait=False the wrapped function is called at most limit times
\* within any one interval of the limiter's grid, for every sequential call
\* pattern.
C1_AtMostLimitPerInterval ==
    ~lim.wait =>
        \A k \in 0..MaxTime :
            Cardinality({i \in DOMAIN calls :
                            Invoked(i) /\ Grid(calls[i].at) = k}) <= lim.limit

\* C2: with wait=False, when every interval up to the last call contains a
\* call, exactly the first min(limit, n) of the n calls of each interval
\* return the wrapped result and the others return the fallback.
C2_FirstLimitCallsPerInterval ==
    (~lim.wait /\ EveryIntervalCalled) =>
        \A i \in DOMAIN calls :
            /\ Invoked(i) <=> Rank(i) <= lim.limit
            /\ ~Invoked(i) =>
                  calls[i].result \in {"on_fail", "on_fail()", "await on_fail()"}

\* four calls over two intervals or more, each interval with a call, some
\* answered by the fallback and some, after the first interval, by func
C2_Witness ==
    /\ ~lim.wait
    /\ EveryIntervalCalled
    /\ Len(calls) >= 4
    /\ \E i \in DOMAIN calls : ~Invoked(i) /\ Rank(i) > lim.limit
    /\ \E i \in DOMAIN calls : Invoked(i) /\ Grid(calls[i].t) >= 1

-----------------------------------------------------------------------------
(* Generators of Throttle.loop / Throttle.aloop on one Throttle, iterated  *)
(* one after the other; the clock is restarted only between two of them.   *)

InitLoop == InitClock

Idle == gen.state \in {"none", "finished", "raised"}

\* the arguments explored
TickArgs == {None} \cup {Some(n) : n \in 0..MaxTicks}

\* a call of loop(max_ticks, duration) or aloop(max_ticks, duration): it
\* makes the generator and runs nothing of its body
LoopCall ==
    /\ Idle
    /\ gen.nth < MaxLoops
    /\ \E kind \in {"loop", "aloop"}, mt \in TickArgs, du \in TickArgs :
          gen' = [generator(kind, mt, du) EXCEPT !.nth = gen.nth + 1]
    /\ yielded' = << >>
    /\ UNCHANGED <<now, th, last>>

\* the history of a retrieval from the generator
Retrieval == [NoOp EXCEPT !.op = "next", !.pre = th]

\* the generator as it enters its while loop, with the Throttle and the time
StartOrResume ==
    IF gen.state = "created"
    THEN {[g |-> r.g, self |-> r.self, t2 |-> now + d] :
             r \in {loop_start(gen, th, now)},
             d \in IF th.t_start = None THEN Lags ELSE {0}}
    ELSE {[g |-> loop_resume(gen), self |-> th, t2 |-> now]}

\* next() on a generator of loop
LoopNext ==
    /\ gen.kind = "loop"
    /\ gen.state \in {"created", "yielded"}
    /\ last' = Retrieval
    /\ \E s \in StartOrResume, over \in Lags :
        IF s.g.state = "raised"
        THEN /\ over = 0
             /\ s.t2 = now
             /\ gen' = s.g
             /\ th' = s.self
             /\ UNCHANGED <<now, yielded>>
        ELSE LET r == loop_pass(s.g, s.self, s.t2, over)
             IN  /\ (over > 0 => r.wake > s.t2 + over)
                 /\ (s.t2 > now => r.g.state = "yielded")
                 /\ r.wake <= MaxTime
                 /\ gen' = r.g
                 /\ th' = IF r.g.state = "yielded" THEN r.self ELSE s.self
                 /\ now' = r.wake
                 /\ yielded' = yielded \o r.yields

\* __anext__() on a generator of aloop, up to its suspension in await_next,
\* to the end of the generator or to the ValueError
ALoopNext ==
    /\ gen.kind = "aloop"
    /\ gen.state \in {"created", "yielded"}
    /\ last' = Retrieval
    /\ \E s \in StartOrResume :
        IF s.g.state = "raised"
        THEN /\ s.t2 = now
             /\ gen' = s.g
             /\ th' = s.self
             /\ UNCHANGED <<now, yielded>>
        ELSE LET r == aloop_pass(s.g, s.self, s.t2)
             IN  /\ (s.t2 > now => r.g.state = "waiting")
                 /\ r.g.wake <= MaxTime
                 /\ gen' = r.g
                 /\ th' = IF r.g.state = "waiting" THEN r.self ELSE s.self
                 /\ now' = IF r.g.state = "waiting" THEN s.t2 ELSE now
                 /\ UNCHANGED yielded

\* the await_next of aloop has returned: the generator yields
ALoopYield ==
    /\ gen.state = "waiting"
    /\ now >= gen.wake
    /\ th' = count_tick(th)
    /\ gen' = [gen EXCEPT !.state = "yielded"]
    /\ yielded' = Append(yielded, gen.ticks)
    /\ last' = Retrieval
    /\ UNCHANGED now

NextLoop ==
    \/ Advance /\ UNCHANGED <<hist, notClock>>
    \/ LoopCall /\ UNCHANGED <<pending, hist, limiter, runs, rater, extra>>
    \/ LoopNext /\ UNCHANGED <<pending, hist, limiter, runs, rater, extra>>
    \/ ALoopNext /\ UNCHANGED <<pending, hist, limiter, runs, rater, extra>>
    \/ ALoopYield /\ UNCHANGED <<pending, hist, limiter, runs, rater, extra>>
    \/ Idle /\ Restart /\ UNCHANGED <<hist, notClock>>

SpecLoop == InitLoop /\ [][NextLoop]_vars

\* the generator has been asked for a value
Started == gen.state \notin {"none", "created"}

\* the latest operation on the clock was a retrieval from the generator
JustRetrieved == last.op = "next"

\* C9: iterating loop(max_ticks=N) or aloop(max_ticks=N) to exhaustion
\* yields exactly 0, 1, ..., N-1 in that order, with exactly one wait_next /
\* await_next before each yield, and then ends; the tick count grows by
\* exactly N.
C9_MaxTicksYieldsZeroToN ==
    (Started /\ gen.arg_max_ticks # None /\ gen.arg_duration = None) =>
        /\ yielded = [i \in 1..Len(yielded) |-> i - 1]
        /\ Len(yielded) <= Val(gen.arg_max_ticks)
        /\ gen.waits = Len(yielded) + (IF gen.state = "waiting" THEN 1 ELSE 0)
        /\ gen.state \in {"yielded", "waiting", "finished"}
        /\ gen.state = "finished" =>
              /\ Len(yielded) = Val(gen.arg_max_ticks)
              /\ JustRetrieved =>
                    th.ticks = gen.first.ticks + Val(gen.arg_max_ticks)

\* a generator of two or more ticks, on a clock that had counted ticks
\* before, has been exhausted
C9_Witness ==
    /\ gen.state = "finished"
    /\ gen.arg_max_ticks # None
    /\ gen.arg_duration = None
    /\ Val(gen.arg_max_ticks) >= 2
    /\ Len(yielded) = Val(gen.arg_max_ticks)
    /\ gen.first.ticks > 0
    /\ JustRetrieved
    /\ th.ticks = gen.first.ticks + Val(gen.arg_max_ticks)

\* C10: loop / aloop called with both max_ticks and duration raises
\* ValueError on the first retrieval: nothing is yielded, no wait is made,
\* and the reference and the tick count are unchanged.
C10_BothArgumentsRaise ==
    (gen.state # "none" /\ gen.arg_max_ticks # None
                        /\ gen.arg_duration # None) =>
        /\ gen.state \in {"created", "raised"}
        /\ yielded = << >>
        /\ gen.waits = 0
        /\ (gen.state = "raised" /\ JustRetrieved) => th = gen.first

\* the first retrieval has raised on a fresh clock, whose reference is
\* still unset
C10_Witness ==
    /\ gen.state = "raised"
    /\ gen.arg_max_ticks # None
    /\ gen.arg_duration # None
    /\ JustRetrieved
    /\ gen.first.t_start = None
    /\ th.t_start = None
    /\ yielded = << >>

\* the least n with n * interval >= duration
LeastCover(duration, interval) ==
    CHOOSE n \in 0..duration :
        /\ n * interval >= duration
        /\ \A k \in 0..(n - 1) : k * interval < duration

\* the generator was made by loop(duration=D) or aloop(duration=D)
ByDuration == gen.arg_duration # None /\ gen.arg_max_ticks = None

\* C11: iterating loop(duration=D) or aloop(duration=D) to exhaustion makes
\* exactly ceil(D / interval) iterations, yielding 0 .. ceil(D / interval) - 1
\* in that order; when D = m * interval it makes exactly m iterations.
C11_DurationYieldsCeil ==
    (Started /\ ByDuration) =>
        LET D == Val(gen.arg_duration)
        IN  /\ yielded = [i \in 1..Len(yielded) |-> i - 1]
            /\ Len(yielded) <= LeastCover(D, th.interval)
            /\ gen.state \in {"yielded", "waiting", "finished"}
            /\ gen.state = "finished" =>
                  /\ Len(yielded) = LeastCover(D, th.interval)
                  /\ \A m \in 0..D :
                        D = m * th.interval => Len(yielded) = m

\* a generator whose duration is not a multiple of the interval has been
\* exhausted, after one iteration more than the whole intervals in it
C11_Witness ==
    /\ gen.state = "finished"
    /\ ByDuration
    /\ Val(gen.arg_duration) % th.interval # 0
    /\ Len(yielded) = Val(gen.arg_duration) \div th.interval + 1
    /\ Len(yielded) >= 2

\* C12: a generator of loop(duration=D) or aloop(duration=D) iterated to
\* exhaustion ends no earlier than D after its first retrieval, whatever
\* the state of the Throttle when the generator was started.
C12_NeverShorterThanDuration ==
    (ByDuration /\ gen.state = "finished") =>
        now - gen.started >= Val(gen.arg_duration)

-----------------------------------------------------------------------------
(* Generators of loop(max_ticks=N) / aloop(max_ticks=N) on one Throttle,   *)
(* iterated to exhaustion one after the other, with or without a restart   *)
(* of the clock between them.                                              *)

\* the entry of a generator in the history, made at its first retrieval
NewRun ==
    [n |-> Val(gen.arg_max_ticks), first |-> th, started |-> now,
     targets |-> << >>, yields |-> << >>, ticks |-> th.ticks, ended |-> None]

\* the history after a step of the generator: the target of the wait it
\* made, the values yielded, the tick count and the time the generator ended
RunsAfter ==
    LET cur == IF gen.state = "created" THEN Append(runs, NewRun) ELSE runs
        k == Len(cur)
    IN  [cur EXCEPT ![k].targets = IF gen'.waits > gen.waits
                                   THEN Append(@, Val(th'.t_start)) ELSE @,
                    ![k].yields = yielded',
                    ![k].ticks = th'.ticks,
                    ![k].ended = IF gen'.state = "finished"
                                 THEN Some(now') ELSE @]

\* a call of loop(max_ticks=N) or aloop(max_ticks=N)
RunCall ==
    /\ LoopCall
    /\ gen'.arg_max_ticks # None
    /\ gen'.arg_duration = None

NextRuns ==
    \/ Advance /\ UNCHANGED <<hist, notClock>>
    \/ RunCall /\ UNCHANGED <<pending, hist, limiter, runs, rater, extra>>
    \/ LoopNext /\ runs' = RunsAfter /\ UNCHANGED <<pending, hist, limiter, rater, extra>>
    \/ ALoopNext /\ runs' = RunsAfter /\ UNCHANGED <<pending, hist, limiter, rater, extra>>
    \/ ALoopYield /\ runs' = RunsAfter /\ UNCHANGED <<pending, hist, limiter, rater, extra>>
    \/ Idle /\ Restart /\ UNCHANGED <<hist, notClock>>

SpecRuns == InitLoop /\ [][NextRuns]_vars

\* the grid points base + (from + 1) * interval, ..., of which p is the
\* sequence of the first ones
OnGrid(p, base, from) ==
    p = [j \in 1..Len(p) |-> base + (from + j) * th.interval]

\* the run has ended on its last target: its last sleep was punctual
Punctual(r) ==
    /\ r.ended # None
    /\ r.n > 0 => r.targets # << >> /\ Val(r.ended) = r.targets[Len(r.targets)]

\* two runs of N ticks, the first on a fresh clock, the second started
\* without a restart no later than N intervals after the first one ended
TwoRunsNoRestart ==
    /\ Len(runs) = 2
    /\ runs[1].first.t_start = None
    /\ runs[2].first.t_start # None
    /\ runs[1].n = runs[2].n
    /\ runs[2].started - Val(runs[1].ended) <= runs[1].n * th.interval

\* C13: when loop(max_ticks=N) is run to exhaustion twice on one Throttle,
\* with an idle gap g <= N * interval and no restart between the runs, the
\* second run continues the grid of the first (targets t0 + (N+1) * interval
\* to t0 + 2N * interval), each run yields 0 .. N-1, the tick count is 2N
\* afterwards, and with punctual sleeps the second run lasts
\* N * interval - g.
C13_SecondRunContinuesGrid ==
    TwoRunsNoRestart =>
        LET N == runs[1].n
            base == runs[1].started
            g == runs[2].started - Val(runs[1].ended)
        IN  /\ OnGrid(runs[1].targets, base, 0)
            /\ OnGrid(runs[2].targets, base, N)
            /\ runs[1].yields = [j \in 1..N |-> j - 1]
            /\ runs[2].yields = [j \in 1..Len(runs[2].yields) |-> j - 1]
            /\ runs[2].ended # None =>
                  /\ Len(runs[2].targets) = N
                  /\ runs[2].yields = [j \in 1..N |-> j - 1]
                  /\ runs[2].ticks = 2 * N
                  /\ Val(runs[2].ended) >= base + 2 * N * th.interval
                  /\ (Punctual(runs[1]) /\ Punctual(runs[2])) =>
                        Val(runs[2].ended) - runs[2].started
                            = N * th.interval - g

\* two runs of two ticks or more with a gap between them, both punctual:
\* the second has lasted less than the first, by the gap
C13_Witness ==
    /\ TwoRunsNoRestart
    /\ runs[1].n >= 2
    /\ runs[2].started > Val(runs[1].ended)
    /\ runs[2].ended # None
    /\ Punctual(runs[1])
    /\ Punctual(runs[2])
    /\ runs[2].ticks = 2 * runs[1].n
    /\ Val(runs[2].ended) - runs[2].started
          < Val(runs[1].ended) - runs[1].started

\* C14: restart() leaves the clock in the state of a newly constructed one
\* with the same interval and is idempotent; a run of loop(max_ticks=N)
\* started on a clock whose reference is unset, after whatever use, idle
\* time and restart, targets started + interval .. started + N * interval,
\* ends no earlier than N * interval after its first retrieval (exactly
\* then with a punctual last sleep) and leaves the tick count at N.
C14_RestartGivesFreshClock ==
    /\ last.op = "restart" =>
          /\ th = Throttle(th.interval)
          /\ restart(th) = th
    /\ \A k \in DOMAIN runs :
          runs[k].first.t_start = None =>
              /\ OnGrid(runs[k].targets, runs[k].started, 0)
              /\ runs[k].ended # None =>
                    /\ Len(runs[k].targets) = runs[k].n
                    /\ runs[k].ticks = runs[k].n
                    /\ Val(runs[k].ended)
                          >= runs[k].started + runs[k].n * th.interval
                    /\ Punctual(runs[k]) =>
                          Val(runs[k].ended) - runs[k].started
                              = runs[k].n * th.interval

\* a second run of two ticks or more, started after a first run, idle time
\* and a restart, has ended punctually
C14_Witness ==
    /\ Len(runs) = 2
    /\ runs[1].n >= 1
    /\ runs[2].first.t_start = None
    /\ runs[2].started > Val(runs[1].ended)
    /\ runs[2].n >= 2
    /\ Punctual(runs[2])
    /\ runs[2].ticks = runs[2].n
    /\ Val(runs[2].ended) - runs[2].started = runs[2].n * th.interval

-----------------------------------------------------------------------------
(* The fallback of a decorated function *)

\* the fallback one rule gives for every kind of on_fail: the result of
\* calling on_fail when it can be called, awaited when on_fail is a
\* coroutine function, and on_fail itself otherwise
FallbackRule(on_fail) ==
    IF on_fail = "value" THEN "on_fail"
    ELSE IF on_fail = "coroutine_function" THEN "await on_fail()"
    ELSE "on_fail()"

\* C15: with wait=False a call that finds the limit exceeded does not call
\* the wrapped function and returns the fallback, which throttle and
\* athrottle alike compute by one rule for every kind of on_fail: on_fail()
\* if on_fail can be called (awaited if it is a coroutine function), else
\* on_fail itself.
C15_OneFallbackRule ==
    ~lim.wait =>
        \A i \in DOMAIN calls :
            ~Invoked(i) => calls[i].result = FallbackRule(lim.on_fail)

-----------------------------------------------------------------------------
(* One function decorated with throttle(wait=True) or athrottle(wait=True) *)

InitBlocking == InitLimiter /\ lim.wait

\* the call that has just returned found the limit exceeded: the interval
\* had not elapsed at the reading the call made and the counter was over
\* the limit
FoundExceeded ==
    LET t2 == calls'[Len(calls')].t
    IN  /\ ~elapsed(lim.throttle_, TRUE, TRUE, now, t2, t2).ret
        /\ limit_exceeded(lim, lim.call_counter + 1)

\* the history of a call of wrapper: whether it found the limit exceeded,
\* the reference it left and the time it called func
WrapperCalled ==
    last' = [NoOp EXCEPT !.op = "wrapper", !.pre = lim.throttle_,
                         !.ret = FoundExceeded, !.t1 = now,
                         !.t2 = calls'[Len(calls')].t, !.t3 = now',
                         !.t_target = Val(lim'.throttle_.t_start)]

\* the history of a call of awrapper by task k, up to its return or its
\* suspension
AwrapperCalled(k) ==
    last' = [NoOp EXCEPT !.op = IF susp'[k] # None THEN "suspended"
                                ELSE "awrapper",
                         !.pre = lim.throttle_, !.t1 = now, !.t3 = now',
                         !.t_target = Val(lim'.throttle_.t_start)]

\* the history of the return of a call of awrapper that was suspended
AwrapperResumed(k) ==
    last' = [NoOp EXCEPT !.op = "awrapper", !.pre = lim.throttle_,
                         !.ret = TRUE, !.t1 = Val(susp[k]).t, !.t3 = now,
                         !.t_target = Val(susp[k]).t_target]

\* time passes: the clock of the event loop advances
Tick == Advance /\ UNCHANGED <<hist, notClock>>

\* the calls made so far, returned or suspended
Made == Len(calls) + Cardinality({j \in Tasks : susp[j] # None})

BlockingCall ==
    /\ Made < MaxBlocking
    /\ Call
    /\ WrapperCalled
    /\ UNCHANGED <<th, pending, lim2, nwaits, ntrue, run, snap, waited, since, looper, rater, extra>>

BlockingACall(k) ==
    /\ Made < MaxBlocking
    /\ ACall(k)
    /\ AwrapperCalled(k)
    /\ UNCHANGED <<th, pending, lim2, nwaits, ntrue, run, snap, waited, since, looper, rater, extra>>

BlockingAResume(k) ==
    /\ AResume(k)
    /\ AwrapperResumed(k)
    /\ UNCHANGED <<th, pending, lim2, nwaits, ntrue, run, snap, waited, since, looper, rater, extra>>

NextBlocking ==
    \/ Tick
    \/ BlockingCall
    \/ \E k \in Tasks : BlockingACall(k)
    \/ \E k \in Tasks : BlockingAResume(k)

\* time passes until asyncio.sleep ends, and the event loop then resumes
\* the task
SpecBlocking ==
    /\ InitBlocking
    /\ [][NextBlocking]_vars
    /\ WF_vars(Tick)
    /\ \A k \in Tasks : WF_vars(BlockingAResume(k))

\* every call that has returned called func and returned its result; a
\* call that found the limit exceeded called func no earlier than its wait
\* target, the next boundary of the clock, with call_counter reset to 1
AlwaysInvokes ==
    /\ \A i \in DOMAIN calls : Invoked(i)
    /\ (last.op = "wrapper" /\ last.ret) =>
          last.t_target = RefAfterCheck(last) + lim.throttle_.interval
    /\ last.op = "suspended" =>
          /\ last.t_target = RefAfterCheck(last) + lim.throttle_.interval
          /\ \E k \in Tasks :
                susp[k] # None /\ Val(susp[k]).t_target = last.t_target
    /\ (last.op \in {"wrapper", "awrapper"} /\ last.ret) =>
          /\ last.t3 >= last.t_target
          /\ calls[Len(calls)].at = last.t3
          /\ lim.call_counter = 1
    /\ \A k \in Tasks : susp[k] # None => Val(susp[k]).wake <= MaxTime

\* C16: with wait=True every call of the decorated function calls func
\* once and returns its result, never on_fail; a call that found the limit
\* exceeded calls func only after the next interval boundary of the clock,
\* its wait target, has been reached, with call_counter reset to 1; and
\* every call that is suspended is resumed in the end.
C16_WaitAlwaysInvokes ==
    /\ []AlwaysInvokes
    /\ \A k \in Tasks : (susp[k] # None) ~> (susp[k] = None)

\* a call that found the limit exceeded has slept to its target and then
\* called func
C16_Witness ==
    /\ last.op \in {"wrapper", "awrapper"}
    /\ last.ret
    /\ last.t3 = last.t_target
    /\ last.t3 > last.t1
    /\ Len(calls) >= 3
    /\ lim.call_counter = 1

-----------------------------------------------------------------------------
(* Sequential calls of a function decorated with wait=True: one caller,   *)
(* which makes a call only when the call before it has returned.           *)

NextSequential ==
    \/ Advance /\ UNCHANGED <<hist, notClock>>
    \/ Call /\ UNCHANGED <<clock, lim2, nwaits, ntrue, run, snap, waited, since, looper, rater, extra>>
    \/ ACall(1) /\ UNCHANGED <<clock, lim2, nwaits, ntrue, run, snap, waited, since, looper, rater, extra>>
    \/ AResume(1) /\ UNCHANGED <<clock, lim2, nwaits, ntrue, run, snap, waited, since, looper, rater, extra>>

SpecSequential == InitBlocking /\ [][NextSequential]_vars

\* the calls were made one after the other with no time between them: the
\* first reads the clock once, each later one is made when the one before
\* it returns, and a call that slept woke up on the next boundary of the
\* grid
BackToBack ==
    /\ calls # << >>
    /\ calls[1].t = Val(t0)
    /\ \A i \in 2..Len(calls) : calls[i].t = calls[i - 1].at
    /\ \A i \in DOMAIN calls :
          calls[i].at > calls[i].t =>
              /\ (calls[i].at - Val(t0)) % lim.throttle_.interval = 0
              /\ calls[i].at - calls[i].t <= lim.throttle_.interval

\* C17: with wait=True and limit L, the n-th of n back-to-back calls on a
\* fresh limiter calls func at t0 + (ceil(n / L) - 1) * interval: L calls
\* run without waiting in each interval and the next one waits for the next
\* boundary.
C17_BackToBackFinishTime ==
    (lim.wait /\ BackToBack) =>
        \A n \in DOMAIN calls :
            /\ Invoked(n)
            /\ calls[n].at = Val(t0) + (LeastCover(n, lim.limit) - 1)
                                          * lim.throttle_.interval
            /\ calls[n].at > calls[n].t <=> (n > 1 /\ n % lim.limit = 1 % lim.limit)

\* four back-to-back calls with limit 2: the third waited for the boundary
\* and the fourth ran at once
C17_Witness ==
    /\ lim.wait
    /\ BackToBack
    /\ lim.limit = 2
    /\ Len(calls) = 4
    /\ calls[3].at > calls[3].t
    /\ calls[4].at = calls[4].t
    /\ calls[4].at = Val(t0) + lim.throttle_.interval

-----------------------------------------------------------------------------
(* A function under two decorators with wait=False,                        *)
(*     @throttle(limit1, interval1)   the outer one, lim                   *)
(*     @throttle(limit2, interval2)   the inner one, lim2                  *)
(* (or athrottle twice): the func of the outer wrapper is the inner one.   *)

\* a call of wrapper or awrapper with wait=False; t1, t2 are the readings
\* of perf_counter() made by elapsed()
decorated(c, t1, t2) ==
    IF c.deco = "throttle"
    THEN LET r == wrapper(c, t1, t2, t2, 0)
         IN  [c |-> r.c, result |-> r.result]
    ELSE LET r == awrapper(c, t1, t2, t2)
         IN  [c |-> r.c, result |-> r.result]

\* mutant of stacked: the inner wrapper runs on every call
stacked_inner_always(outer, inner, t1, t2, t3, t4) ==
    LET o == decorated(outer, t1, t2)
        i == decorated(inner, t3, t4)
    IN  IF o.result = "func()"
        THEN [outer |-> o.c, inner |-> i.c, result |-> i.result,
              by |-> IF i.result = "func()" THEN "func" ELSE "inner"]
        ELSE [outer |-> o.c, inner |-> i.c, result |-> o.result,
              by |-> "outer"]

\* a call of the function under the two decorators: the outer wrapper runs
\* and, where it goes on to call its func, the inner wrapper; t1, t2 are
\* the readings of the outer wrapper and t3, t4 those of the inner one; by
\* names what produced the result
stacked(outer, inner, t1, t2, t3, t4) ==
    LET o == decorated(outer, t1, t2)
        i == decorated(inner, t3, t4)
    IN  IF o.result = "func()"
        THEN [outer |-> o.c, inner |-> i.c, result |-> i.result,
              by |-> IF i.result = "func()" THEN "func" ELSE "inner"]
        ELSE [outer |-> o.c, inner |-> inner, result |-> o.result,
              by |-> "outer"]

\* the decorators of test_nested_sync_decorators and
\* test_nested_async_decorators, in units of 0.01 s: limit 2 every 0.1 s
\* around limit 3 every 0.2 s
NestedTest ==
    \/ /\ [lim EXCEPT !.call_counter = 0, !.throttle_ = restart(@)]
             = throttle(2, 10, FALSE, "value")
       /\ [Val(lim2) EXCEPT !.call_counter = 0, !.throttle_ = restart(@)]
             = throttle(3, 20, FALSE, "value")
    \/ /\ [lim EXCEPT !.call_counter = 0, !.throttle_ = restart(@)]
             = athrottle(2, 10, FALSE, "value")
       /\ [Val(lim2) EXCEPT !.call_counter = 0, !.throttle_ = restart(@)]
             = athrottle(3, 20, FALSE, "value")

\* the decorators explored, the outer fallback a value and the inner one
\* the result of a function, and those of the two tests
InitStacked ==
    /\ now = 0
    /\ \/ \E l1 \in 1..MaxLimit, i1 \in Intervals,
             l2 \in 1..MaxLimit, i2 \in Intervals :
             \/ /\ lim = throttle(l1, i1, FALSE, "value")
                /\ lim2 = Some(throttle(l2, i2, FALSE, "function"))
             \/ /\ lim = athrottle(l1, i1, FALSE, "value")
                /\ lim2 = Some(athrottle(l2, i2, FALSE, "function"))
       \/ /\ lim = throttle(2, 10, FALSE, "value")
          /\ lim2 = Some(throttle(3, 20, FALSE, "value"))
       \/ /\ lim = athrottle(2, 10, FALSE, "value")
          /\ lim2 = Some(athrottle(3, 20, FALSE, "value"))
    /\ susp = [k \in Tasks |-> None]
    /\ calls = << >>
    /\ th = Throttle(1)
    /\ pending = [k \in Tasks |-> None]
    /\ last = NoOp
    /\ t0 = None
    /\ nwaits = 0
    /\ ntrue = 0
    /\ run = NoRun
    /\ snap = NoSnap
    /\ gen = NoGen
    /\ yielded = << >>
    /\ runs = << >>
    /\ waited = << >>
    /\ since = NoSince
    /\ twin = NoTwin
    /\ met = NoMet
    /\ mop = NoMetOp
    /\ meter = RateMeter(1)
    /\ mlast = NoMeterOp
    /\ feed = NoFeed

\* the entry of a call in the history, r being what stacked returns: it
\* also tells whether the outer wrapper found its limit exceeded, and the
\* closure of the inner decorator before and after the call
StackedCalled(r, t1, t2, at) ==
    calls' = Append(calls,
        [t |-> t2, at |-> at, result |-> r.result, by |-> r.by,
         exceeded |-> /\ ~elapsed(lim.throttle_, TRUE, TRUE, t1, t2, t2).ret
                      /\ limit_exceeded(lim, lim.call_counter + 1),
         before |-> Val(lim2), after |-> r.inner])

\* a call of the function under the two decorators; the inner wrapper
\* runs as soon as the outer one has read the clock, and time passes inside
\* it only between the two readings of a first call
StackedCall ==
    /\ lim2 # None
    /\ ~NestedTest
    /\ Len(calls) < MaxStacked
    /\ \E rd \in FirstReads(lim.throttle_), d4 \in Lags :
        \E r \in {stacked(lim, Val(lim2), rd[1], rd[2], rd[2], rd[2] + d4)} :
            LET at == IF r.by = "outer" THEN rd[2] ELSE rd[2] + d4
            IN  /\ (d4 > 0 => /\ r.by # "outer"
                              /\ Val(lim2).throttle_.t_start = None)
                /\ at <= MaxTime
                /\ lim' = r.outer
                /\ lim2' = Some(r.inner)
                /\ now' = at
                /\ FirstCalled(rd[1])
                /\ StackedCalled(r, rd[1], rd[2], at)
                /\ UNCHANGED susp

\* a pass of the loop of the nested-decorator tests, 100 passes spaced
\* 0.01 s: the call of the function, which takes no time, and the wait
\* for the next pass
SpacedCall ==
    /\ lim2 # None
    /\ NestedTest
    /\ Len(calls) < 100
    /\ \E r \in {stacked(lim, Val(lim2), now, now, now, now)} :
           /\ lim' = r.outer
           /\ lim2' = Some(r.inner)
           /\ StackedCalled(r, now, now, now)
    /\ now' = now + 1
    /\ FirstCalled(now)
    /\ UNCHANGED susp

\* time passes between the calls explored
NextStacked ==
    \/ /\ ~NestedTest
       /\ Len(calls) < MaxStacked
       /\ Advance
       /\ UNCHANGED <<hist, notClock>>
    \/ StackedCall /\ UNCHANGED <<clock, nwaits, ntrue, run, snap, waited, since, looper, rater, extra>>
    \/ SpacedCall /\ UNCHANGED <<clock, nwaits, ntrue, run, snap, waited, since, looper, rater, extra>>

SpecStacked == InitStacked /\ [][NextStacked]_vars

\* what produced the results of the calls made: the number of by
Tally(by) == Cardinality({i \in DOMAIN calls : calls[i].by = by})

\* C18: a call of a function under two decorators runs the outer check
\* first; when the outer limit is exceeded the call returns the outer
\* fallback and the counter and the clock of the inner decorator are left
\* untouched; otherwise it returns what the inner wrapper returns, the
\* result of func or the inner fallback.  100 calls spaced 0.01 s under
\* (limit 2, interval 0.1) around (limit 3, interval 0.2) give 15 results,
\* 80 outer fallbacks and 5 inner fallbacks.
C18_OuterCheckFirst ==
    /\ \A i \in DOMAIN calls :
          LET c == calls[i]
          IN  /\ c.by = "outer" <=> c.exceeded
              /\ c.by = "outer" =>
                    /\ c.result = "on_fail"
                    /\ c.after = c.before
              /\ c.by = "inner" =>
                    /\ c.result = on_fail_result(c.before)
                    /\ c.after.call_counter > c.after.limit
              /\ c.by = "func" =>
                    /\ c.result = "func()"
                    /\ c.after.call_counter \in 1..c.after.limit
              /\ c.by # "outer" => c.after.throttle_.t_start # None
              /\ c.before = IF i = 1 THEN [c.after EXCEPT
                                              !.call_counter = 0,
                                              !.throttle_ = restart(@)]
                            ELSE calls[i - 1].after
    /\ calls # << >> => Val(lim2) = calls[Len(calls)].after
    /\ (NestedTest /\ Len(calls) = 100) =>
          /\ Tally("func") = 15
          /\ Tally("outer") = 80
          /\ Tally("inner") = 5

\* three calls: one returned the result of func, one the inner fallback,
\* and one the outer fallback, leaving the inner decorator as it was
C18_Witness ==
    /\ Len(calls) = 3
    /\ \E i \in DOMAIN calls : calls[i].by = "func"
    /\ \E i \in DOMAIN calls : calls[i].by = "inner"
    /\ calls[3].by = "outer"
    /\ calls[3].result = "on_fail"
    /\ calls[3].before.throttle_.t_start # None
    /\ Val(lim2) = calls[3].before

\* the interval of the grid of decorator c a time lies in, counted from
\* the reference of its clock
GridOf(c, t) == (t - Val(c.throttle_.t_start)) \div c.throttle_.interval

\* the calls that returned the result of func, by the reading of the clock
\* the outer wrapper made for them, and by the one the inner wrapper made
Results(outer) ==
    [i \in {j \in DOMAIN calls : calls[j].by = "func"} |->
        IF outer THEN calls[i].t ELSE calls[i].at]

\* no interval of the grid of c holds more than limit of the readings p
WithinLimit(c, p) ==
    c.throttle_.t_start # None =>
        \A j \in DOMAIN p :
            Cardinality({i \in DOMAIN p : GridOf(c, p[i]) = GridOf(c, p[j])})
                <= c.limit

\* C19: for a function under two decorators, whatever the calls made, the
\* calls that returned the result of func within any one interval of the
\* grid of either decorator are no more than the limit of that decorator.
C19_WithinBothLimits ==
    /\ WithinLimit(lim, Results(TRUE))
    /\ WithinLimit(Val(lim2), Results(FALSE))

-----------------------------------------------------------------------------
(* Two functions f and g decorated with wait=False: f by the decorator     *)
(* throttle(...) returned (closure lim), g either by the decorator another *)
(* throttle(...) call returned (closure lim2) or by the same decorator     *)
(* object as f (lim2 is None).                                             *)
(* The two decorators are of one kind and of one interval; their limits    *)
(* are chosen apart.                                                       *)

\* calls of f and g together
MaxOwned == 3

\* mutant of closure_used: every wrapper works on the first closure
closure_used_first(fn, second) == "lim"

\* the closure the wrapper of fn works on: call_counter and throttle_ are
\* variables of the throttle(...) call that returned its decorator
closure_used(fn, second) ==
    IF fn = "g" /\ second # None THEN "lim2" ELSE "lim"

InitOwned ==
    /\ now = 0
    /\ \E l1 \in 1..MaxLimit, i1 \in Intervals :
          \/ /\ lim = throttle(l1, i1, FALSE, "value")
             /\ lim2 \in {None} \cup
                   {Some(throttle(l2, i1, FALSE, "value")) :
                       l2 \in 1..MaxLimit}
          \/ /\ lim = athrottle(l1, i1, FALSE, "value")
             /\ lim2 \in {None} \cup
                   {Some(athrottle(l2, i1, FALSE, "value")) :
                       l2 \in 1..MaxLimit}
    /\ susp = [k \in Tasks |-> None]
    /\ calls = << >>
    /\ th = Throttle(1)
    /\ pending = [k \in Tasks |-> None]
    /\ last = NoOp
    /\ t0 = None
    /\ nwaits = 0
    /\ ntrue = 0
    /\ run = NoRun
    /\ snap = NoSnap
    /\ gen = NoGen
    /\ yielded = << >>
    /\ runs = << >>
    /\ waited = << >>
    /\ since = NoSince
    /\ twin = NoTwin
    /\ met = NoMet
    /\ mop = NoMetOp
    /\ meter = RateMeter(1)
    /\ mlast = NoMeterOp
    /\ feed = NoFeed

\* the call counter and the clock that limit fn
StateOf(fn) == IF fn = "g" /\ lim2 # None THEN Val(lim2) ELSE lim

\* the function that is not fn
Other(fn) == IF fn = "f" THEN "g" ELSE "f"

\* a call of fn; its entry in the history also tells the state that limits
\* fn after the call, and the one that limits the other function before
\* and after it
OwnedCall(fn) ==
    /\ Len(calls) < MaxOwned
    /\ LET which == closure_used(fn, lim2)
           c == IF which = "lim" THEN lim ELSE Val(lim2)
       IN  \E rd \in FirstReads(c.throttle_) :
             \E r \in {decorated(c, rd[1], rd[2])} :
               /\ rd[2] <= MaxTime
               /\ lim' = IF which = "lim" THEN r.c ELSE lim
               /\ lim2' = IF which = "lim2" THEN Some(r.c) ELSE lim2
               /\ now' = rd[2]
               /\ calls' = Append(calls,
                     [fn |-> fn, t |-> rd[2], at |-> rd[2],
                      result |-> r.result,
                      own_after |-> StateOf(fn)',
                      other_before |-> StateOf(Other(fn)),
                      other_after |-> StateOf(Other(fn))'])
    /\ UNCHANGED <<susp, t0>>

NextOwned ==
    \/ /\ Len(calls) < MaxOwned
       /\ Advance
       /\ UNCHANGED <<hist, notClock>>
    \/ \E fn \in {"f", "g"} : OwnedCall(fn) /\ UNCHANGED <<clock, nwaits, ntrue, run, snap, waited, since, looper, rater, extra>>

SpecOwned == InitOwned /\ [][NextOwned]_vars

\* C20 as stated: a call of one decorated function never changes the call
\* counter or the clock that limit another decorated function, whether the
\* two were decorated through separate throttle(...) calls or with the same
\* decorator object.
C20_ExclusivelyOwned ==
    \A i \in DOMAIN calls : calls[i].other_after = calls[i].other_before

\* C20, amended: each throttle(...) / athrottle(...) call owns one call
\* counter and one clock.  A call of a function decorated through one such
\* call never changes those of a function decorated through another; two
\* functions decorated with the same decorator object share them, so every
\* call of one changes the state that limits the other.
C20_OwnedPerDecoratorCall ==
    \A i \in DOMAIN calls :
        /\ lim2 # None => calls[i].other_after = calls[i].other_before
        /\ lim2 = None =>
              /\ calls[i].other_after = calls[i].own_after
              /\ calls[i].other_after # calls[i].other_before

\* f and g share a decorator of limit 1: f was called, and the call of g
\* that followed in the same interval was answered by the fallback
C20_Witness ==
    /\ lim2 = None
    /\ lim.limit = 1
    /\ Len(calls) >= 2
    /\ calls[1].fn = "f"
    /\ calls[1].result = "func()"
    /\ calls[2].fn = "g"
    /\ calls[2].result = "on_fail"
    /\ calls[2].other_after # calls[2].other_before

-----------------------------------------------------------------------------
(* Tasks of one event loop that share a fresh Throttle and call await_next *)
(* on it without any lock; the thread may also call wait_next when no task *)
(* runs.  A suspended task may be cancelled.                               *)

\* the entry of task k that is still suspended
Open(k) == CHOOSE j \in DOMAIN waited :
               waited[j].task = k /\ waited[j].state = "suspended"

\* the number of calls that have ended, plus one
NextEnded == Cardinality({j \in DOMAIN waited : waited[j].ended > 0}) + 1

\* the history of a wait_next (task 0) / await_next call that has started
TaskStarted(k, state) ==
    /\ Len(waited) < MaxWaits
    /\ t0' = IF th.t_start = None THEN Some(last'.t1) ELSE t0
    /\ nwaits' = nwaits + 1
    /\ waited' = Append(waited,
          [task |-> k, state |-> state,
           ref |-> RefAfterCheck(last'),
           t_target |-> last'.t_target,
           after |-> th'.t_start,
           ended |-> IF state = "suspended" THEN 0 ELSE NextEnded,
           others |-> Cardinality({j \in Tasks : pending[j] # None})])
    /\ UNCHANGED <<ntrue, run, snap, since>>

\* the history of the await_next call of task k that has ended
TaskEnded(k, state) ==
    /\ waited' = [waited EXCEPT ![Open(k)].state = state,
                                ![Open(k)].ended = NextEnded]
    /\ UNCHANGED <<t0, nwaits, ntrue, run, snap, since>>

NextTasks ==
    \/ /\ Len(waited) < MaxWaits \/ \E k \in Tasks : pending[k] # None
       /\ Advance
       /\ UNCHANGED <<hist, notClock>>
    \/ WaitNext /\ TaskStarted(0, "returned") /\ UNCHANGED notClock
    \/ \E k \in Tasks : AwaitNext(k) /\ TaskStarted(k, "suspended") /\ UNCHANGED notClock
    \/ \E k \in Tasks : AwaitReturn(k) /\ TaskEnded(k, "returned") /\ UNCHANGED notClock
    \/ \E k \in Tasks : Cancel(k) /\ TaskEnded(k, "cancelled") /\ UNCHANGED notClock

SpecTasks == InitClock /\ [][NextTasks]_vars

\* the calls that are in the given state
InState(state) == {j \in DOMAIN waited : waited[j].state = state}

\* C21: tasks that call await_next concurrently on one Throttle, without a
\* lock, get the targets reference + interval, reference + 2 * interval, ...
\* in call order; no advance of the reference is lost; once all the calls
\* have completed the tick count has grown by the number of calls.
C21_ConcurrentTargetsInCallOrder ==
    /\ \A j \in DOMAIN waited :
          waited[j].t_target = Val(t0) + j * th.interval
    /\ waited # << >> =>
          th.t_start = Some(Val(t0) + Len(waited) * th.interval)
    /\ InState("cancelled") = {} =>
          th.ticks = Len(waited) - Cardinality(InState("suspended"))
    /\ (InState("cancelled") = {} /\ InState("suspended") = {}) =>
          th.ticks = Len(waited)

\* every task called await_next while another task was suspended in it, and
\* all the calls have completed
C21_Witness ==
    /\ Len(waited) >= MaxTasks
    /\ \A k \in Tasks : \E j \in DOMAIN waited : waited[j].task = k
    /\ \E j \in DOMAIN waited : waited[j].others = MaxTasks - 1
    /\ InState("returned") = DOMAIN waited
    /\ th.ticks = Len(waited)

\* two calls got the same target, or a call did not build on the advance
\* of the call before it, or the advance or the tick of a call was lost
Raced ==
    \/ \E i, j \in DOMAIN waited :
          i < j /\ waited[i].t_target = waited[j].t_target
    \/ \E j \in DOMAIN waited :
          \/ waited[j].ref # (IF j = 1 THEN Val(t0) ELSE Val(waited[j - 1].after))
          \/ waited[j].after # Some(waited[j].ref + th.interval)
    \/ waited # << >> /\ th.t_start # waited[Len(waited)].after
    \/ th.ticks # Cardinality(InState("returned"))

\* a call was made while another task was suspended in await_next, and
\* every call has ended
OverlappedAndEnded ==
    /\ \E j \in DOMAIN waited : waited[j].others > 0
    /\ InState("suspended") = {}

\* C22 as stated: await_next calls that the callers do not serialize race:
\* two callers get the same target, or an advance of the reference or an
\* increment of the tick count is lost.  Stated of the interleavings in which
\* the calls overlap, once they have ended; C22_NoRaceAmongTasks shows that
\* no other interleaving races either.
C22_UnserializedCallersRace == OverlappedAndEnded => Raced

\* C22, amended: await_next calls of tasks of one event loop need no lock.
\* In every interleaving the callers get pairwise different targets, every
\* call advances the reference the call before it left by one interval, and
\* every call that returns adds one to the tick count.
C22_NoRaceAmongTasks == ~Raced

\* the second call was made while the first was suspended and returned
\* before it
C22_Witness ==
    /\ Len(waited) >= 2
    /\ waited[2].others >= 1
    /\ waited[1].state = "returned"
    /\ waited[2].state = "returned"
    /\ waited[2].ended < waited[1].ended
    /\ waited[1].t_target + th.interval = waited[2].t_target
    /\ th.ticks = 2

\* C23: an await_next call cancelled while suspended leaves the reference
\* advanced by the interval it added: the cancellation changes nothing of
\* the reference, and the next wait_next / await_next call targets the
\* boundary after the cancelled call's.
C23_CancelKeepsAdvance ==
    /\ last.op = "cancelled" =>
          /\ th.t_start = last.pre.t_start
          /\ Val(th.t_start) >= last.t_target
    /\ \A j \in InState("cancelled") :
          /\ waited[j].after = Some(waited[j].t_target)
          /\ j = Len(waited) => th.t_start = Some(waited[j].t_target)
          /\ j < Len(waited) =>
                waited[j + 1].t_target = waited[j].t_target + th.interval

\* the first call was cancelled while suspended, and the call made after
\* the cancellation targets the second boundary
C23_Witness ==
    /\ Len(waited) = 2
    /\ waited[1].state = "cancelled"
    /\ waited[2].ended > waited[1].ended
    /\ waited[2].others = 0
    /\ waited[2].t_target = Val(t0) + 2 * th.interval

\* C24 as stated: the tick count is incremented for an await_next call that
\* is cancelled while suspended.
C24_CancelledWaitCountsTick ==
    last.op = "cancelled" => th.ticks = last.pre.ticks + 1

\* C24, amended: an await_next call cancelled while suspended does not
\* count its tick.  The tick count is the number of calls that returned,
\* while the reference is ahead of the first one by one interval for every
\* call made, cancelled calls included.
C24_CancelledWaitCountsNoTick ==
    /\ last.op = "cancelled" => th.ticks = last.pre.ticks
    /\ th.ticks = Cardinality(InState("returned"))
    /\ waited # << >> =>
          Val(th.t_start) = Val(t0) + th.interval *
              (th.ticks + Cardinality(InState("suspended"))
                        + Cardinality(InState("cancelled")))

\* of two calls one returned and one was cancelled: one tick, two intervals
C24_Witness ==
    /\ Len(waited) = 2
    /\ Cardinality(InState("cancelled")) = 1
    /\ Cardinality(InState("returned")) = 1
    /\ th.ticks = 1
    /\ th.t_start = Some(Val(t0) + 2 * th.interval)

-----------------------------------------------------------------------------
(* One RateMeter: update with and without an iteration number, rate and    *)
(* restart, at any reading of the clock.                                   *)

Windows == 1..MaxWindow

InitMeter ==
    /\ now = 0
    /\ meter \in {RateMeter(w) : w \in Windows}
    /\ mlast = NoMeterOp
    /\ feed = NoFeed
    /\ th = Throttle(1)
    /\ pending = [k \in Tasks |-> None]
    /\ last = NoOp
    /\ t0 = None
    /\ nwaits = 0
    /\ ntrue = 0
    /\ run = NoRun
    /\ snap = NoSnap
    /\ waited = << >>
    /\ since = NoSince
    /\ twin = NoTwin
    /\ met = NoMet
    /\ mop = NoMetOp
    /\ lim = throttle(1, 1, FALSE, "value")
    /\ lim2 = None
    /\ susp = [k \in Tasks |-> None]
    /\ calls = << >>
    /\ gen = NoGen
    /\ yielded = << >>
    /\ runs = << >>

\* the meter and the history after a call of RateMeter.update
Updated(iter_num) ==
    /\ meter' = update(meter, iter_num, now)
    /\ mlast' = [op |-> "update", pre |-> meter, arg |-> iter_num,
                 t |-> now, ret |-> zero,
                 trimmed |-> mlast.trimmed
                             \/ Len(meter'._times) <= Len(meter._times),
                 restarted |-> mlast.restarted, again |-> FALSE]

\* a call of RateMeter.update; perf_counter() reads now
Update(iter_num) ==
    /\ Len(meter._times) < MaxSamples
    /\ Updated(iter_num)

\* a call of RateMeter.rate
Rate ==
    /\ mlast' = [mlast EXCEPT !.op = "rate", !.pre = meter, !.arg = None,
                              !.t = now, !.ret = rate(meter),
                              !.again = (mlast.op = "rate" /\ mlast.t < now)]
    /\ UNCHANGED meter

\* a call of RateMeter.restart
MeterRestart ==
    /\ meter' = RateMeter_restart(meter)
    /\ mlast' = [op |-> "restart", pre |-> meter, arg |-> None, t |-> now,
                 ret |-> zero, trimmed |-> FALSE, restarted |-> TRUE,
                 again |-> FALSE]

\* everything but the meter and the time
notMeter == <<clock, hist, limiter, looper, feed, extra>>

NextMeter ==
    \/ now < MaxReading /\ Advance /\ UNCHANGED <<hist, notClock>>
    \/ \E v \in 0..MaxValue : Update(Some(v)) /\ UNCHANGED <<now, notMeter>>
    \/ Update(None) /\ UNCHANGED <<now, notMeter>>
    \/ Rate /\ UNCHANGED <<now, notMeter>>
    \/ MeterRestart /\ UNCHANGED <<now, notMeter>>

SpecMeter == InitMeter /\ [][NextMeter]_vars

\* the span of the samples held
Span(self) == self._times[Len(self._times)] - self._times[1]

\* C25: rate() returns 0 with fewer than 2 samples and when the first and
\* the last sample have the same time; otherwise it returns the difference
\* of the last and the first value divided by the difference of their
\* times, which is never zero where the division is made.
C25_RateOfFirstAndLast ==
    /\ Len(meter._times) = Len(meter._iters)
    /\ \A i, j \in DOMAIN meter._times :
          i <= j => meter._times[i] <= meter._times[j]
    /\ mlast.op = "rate" =>
          LET m == mlast.pre
              n == Len(m._times)
          IN  /\ n < 2 => mlast.ret = zero
              /\ (n >= 2 /\ m._times[n] = m._times[1]) => mlast.ret = zero
              /\ (n >= 2 /\ m._times[n] # m._times[1]) =>
                    /\ mlast.ret.den > 0
                    /\ mlast.ret.num * (m._times[n] - m._times[1])
                          = (m._iters[n] - m._iters[1]) * mlast.ret.den

\* rate() was asked with samples of different values, all taken at one
\* reading of the clock
C25_Witness ==
    /\ mlast.op = "rate"
    /\ Len(mlast.pre._times) >= 2
    /\ Span(mlast.pre) = 0
    /\ mlast.pre._iters[1] # mlast.pre._iters[Len(mlast.pre._iters)]
    /\ mlast.ret = zero

\* the samples update held before its trim: those of before and the new one
BeforeTrim(r) == Append(r.pre._times, r.t)

\* C26: once an update has removed an entry, and until restart(), the span
\* of the samples held is at least the interval after every update; a trim
\* removes no entry whose removal would leave a span shorter than the
\* interval, and what it leaves is the rest of the samples, in order.
C26_WindowFloor ==
    /\ (mlast.trimmed /\ meter._times # << >>) =>
          Span(meter) >= meter.interval
    /\ mlast.op = "update" =>
          LET a == BeforeTrim(mlast)
              k == Len(a) - Len(meter._times)
          IN  /\ k >= 0
              /\ meter._times = SubSeq(a, k + 1, Len(a))
              /\ \A i \in 1..k : a[Len(a)] - a[i + 1] >= meter.interval

\* an update removed entries and left a span longer than the interval, the
\* entry it kept being older than the interval
C26_Witness ==
    /\ mlast.op = "update"
    /\ Len(meter._times) < Len(BeforeTrim(mlast))
    /\ Span(meter) > meter.interval
    /\ Len(meter._times) >= 2

\* C27 as stated: whenever rate() returns a value computed from two or
\* more samples, the span it measured over is at least the interval.
C27_NeverOverShorterSpan ==
    (mlast.op = "rate" /\ Len(mlast.pre._times) >= 2 /\ Span(mlast.pre) > 0)
        => Span(mlast.pre) >= mlast.pre.interval

\* C27, amended: once an update has removed an entry, and until restart(),
\* the span rate() measures over is at least the interval.
C27_NotShorterOnceTrimmed ==
    (mlast.op = "rate" /\ mlast.trimmed /\ Len(mlast.pre._times) >= 2) =>
        /\ Span(mlast.pre) >= mlast.pre.interval
        /\ mlast.ret.num * Span(mlast.pre) =
              (mlast.pre._iters[Len(mlast.pre._iters)] - mlast.pre._iters[1])
                  * mlast.ret.den

\* rate() was computed after a trim, over a span of exactly the interval
C27_Witness ==
    /\ mlast.op = "rate"
    /\ mlast.trimmed
    /\ Len(mlast.pre._times) >= 2
    /\ Span(mlast.pre) = mlast.pre.interval
    /\ mlast.ret # zero

\* C29: update() appends one sample, with the reading of the clock, before
\* it trims.  Without an argument the value stored is the last stored value
\* plus one, or 0 when no sample is held, as at first and after restart();
\* with an argument the value stored is the argument.
C29_UpdateStoresOneSample ==
    mlast.op = "update" =>
        LET n == Len(meter._times)
            m == mlast.pre
            k == Len(m._times) + 1 - n
        IN  /\ n >= 1
            /\ k >= 0
            /\ meter._times = SubSeq(Append(m._times, mlast.t), k + 1,
                                     Len(m._times) + 1)
            /\ meter._times[n] = mlast.t
            /\ \A i \in 1..(n - 1) : meter._iters[i] = m._iters[k + i]
            /\ mlast.arg # None => meter._iters[n] = Val(mlast.arg)
            /\ (mlast.arg = None /\ m._iters = << >>) => meter._iters[n] = 0
            /\ (mlast.arg = None /\ m._iters # << >>) =>
                  meter._iters[n] = m._iters[Len(m._iters)] + 1

\* after a restart, an update without an argument stored 0
C29_Witness ==
    /\ mlast.op = "update"
    /\ mlast.restarted
    /\ mlast.arg = None
    /\ mlast.pre._iters = << >>
    /\ mlast.t > 0
    /\ meter._iters = <<0>>

\* C30: restart() removes every sample, whatever the meter held: both
\* sequences are empty and rate() returns 0.
C30_RestartRemovesAll ==
    /\ mlast.op = "restart" =>
          /\ meter._times = << >>
          /\ meter._iters = << >>
          /\ rate(meter) = zero
    /\ (mlast.op = "rate" /\ mlast.restarted /\ ~mlast.trimmed
            /\ Len(mlast.pre._iters) <= 1) => mlast.ret = zero

\* a meter that held samples giving a rate other than 0 was restarted
C30_Witness ==
    /\ mlast.op = "restart"
    /\ Len(mlast.pre._times) >= 2
    /\ rate(mlast.pre) # zero
    /\ meter._times = << >>

\* the last n entries of a sequence
Last(a, n) == SubSeq(a, Len(a) - n + 1, Len(a))

\* C37: the times and the values have the same length and are aligned by
\* index, the times are in non-decreasing order, and update() with its trim
\* adds and removes entries of both sequences in pairs only: what it leaves
\* is, for both, the same number of last entries of the sequence before it
\* with the new entry appended.
C37_SequencesAligned ==
    /\ Len(meter._times) = Len(meter._iters)
    /\ \A i, j \in DOMAIN meter._times :
          i <= j => meter._times[i] <= meter._times[j]
    /\ mlast.op = "update" =>
          /\ Len(meter._times) \in 1..(Len(mlast.pre._times) + 1)
          /\ meter._times = Last(BeforeTrim(mlast), Len(meter._times))
          /\ meter._iters =
                Last(Append(mlast.pre._iters,
                            iter_num_stored(mlast.pre, mlast.arg)),
                     Len(meter._times))
    /\ mlast.op = "restart" => meter._times = << >> /\ meter._iters = << >>
    /\ mlast.op = "rate" => meter = mlast.pre

\* an update() that removed the oldest pair and left two samples or more
\* with different values
C37_Witness ==
    /\ mlast.op = "update"
    /\ Len(meter._times) >= 2
    /\ Len(meter._times) < Len(BeforeTrim(mlast))
    /\ meter._iters[1] # meter._iters[Len(meter._iters)]
    /\ meter._iters[1] = mlast.pre._iters[2]
    /\ meter._times[1] = mlast.pre._times[2]

\* the cutoff of the latest update(): the newest time minus the window
Cutoff == mlast.t - meter.interval

\* the entries of a sequence of times that are older than the cutoff
Older(a) == {i \in DOMAIN a : a[i] < Cutoff}

\* C38: after every update() at most one retained entry is older than the
\* cutoff times[last] - window; if some entry equals the cutoff, no retained
\* entry is older and the first retained entry is the first exact match;
\* otherwise exactly the newest of the entries older than the cutoff is
\* kept, when there is one.
C38_OneBoundaryElement ==
    mlast.op = "update" =>
        LET before == BeforeTrim(mlast)
            kept == meter._times
        IN  /\ Cardinality(Older(kept)) <= 1
            /\ count(before, Cutoff) > 0 =>
                  /\ Older(kept) = {}
                  /\ kept[1] = Cutoff
                  /\ Len(kept) = Len(before) - Cardinality(Older(before))
            /\ (count(before, Cutoff) = 0 /\ Older(before) # {}) =>
                  /\ Older(kept) = {1}
                  /\ Len(kept) = Len(before) - Cardinality(Older(before)) + 1
            /\ Older(before) = {} => kept = before

\* an update() that found an entry at the cutoff and removed an older one
C38_Witness ==
    /\ mlast.op = "update"
    /\ count(BeforeTrim(mlast), Cutoff) > 0
    /\ Older(BeforeTrim(mlast)) # {}
    /\ meter._times[1] = Cutoff
    /\ Len(meter._times) >= 2

\* one step of the meter as C40 describes it
RateStep ==
    mlast'.op = "rate" =>
        /\ meter' = meter
        /\ mlast'.ret = rate(meter)
        /\ mlast.op = "rate" => mlast'.ret = mlast.ret

\* C40: rate() changes no state and its result depends on the stored
\* samples only, not on the current time: without an update() or restart()
\* in between, a rate() call returns what the rate() call before it
\* returned, however much time has passed.
C40_RateReadsSamplesOnly == [][RateStep]_vars

\* a rate() call repeated after time has passed, more than a window after
\* the newest sample, with a result other than 0
C40_Witness ==
    /\ mlast.op = "rate"
    /\ mlast.again
    /\ mlast.ret # zero
    /\ meter = mlast.pre
    /\ mlast.t > meter._times[Len(meter._times)] + meter.interval

-----------------------------------------------------------------------------
(* A loop whose iterations are feed.spacing apart and that feeds a         *)
(* RateMeter: with update() in every iteration, or with update(i) in every *)
(* Stride-th iteration i; it asks rate() in every iteration.               *)

InitFeed ==
    /\ now = 0
    /\ meter \in {RateMeter(w) : w \in Windows}
    /\ mlast = NoMeterOp
    /\ feed \in {[spacing |-> d, every |-> e, i |-> 0, updates |-> 0,
                  updated |-> FALSE] : d \in Intervals, e \in {1, Stride}}
    /\ th = Throttle(1)
    /\ pending = [k \in Tasks |-> None]
    /\ last = NoOp
    /\ t0 = None
    /\ nwaits = 0
    /\ ntrue = 0
    /\ run = NoRun
    /\ snap = NoSnap
    /\ waited = << >>
    /\ since = NoSince
    /\ twin = NoTwin
    /\ met = NoMet
    /\ mop = NoMetOp
    /\ lim = throttle(1, 1, FALSE, "value")
    /\ lim2 = None
    /\ susp = [k \in Tasks |-> None]
    /\ calls = << >>
    /\ gen = NoGen
    /\ yielded = << >>
    /\ runs = << >>

\* the update of iteration feed.i, when one is due
FeedUpdate ==
    /\ ~feed.updated
    /\ feed.i < MaxIters
    /\ IF feed.every = 1
       THEN /\ Updated(None)
            /\ feed' = [feed EXCEPT !.updated = TRUE, !.updates = @ + 1]
       ELSE IF feed.i % feed.every = 0
       THEN /\ Updated(Some(feed.i))
            /\ feed' = [feed EXCEPT !.updated = TRUE, !.updates = @ + 1]
       ELSE /\ feed' = [feed EXCEPT !.updated = TRUE]
            /\ UNCHANGED <<meter, mlast>>
    /\ UNCHANGED now

\* the rate() call of iteration feed.i; the next iteration starts
\* feed.spacing later
FeedRate ==
    /\ feed.updated
    /\ Rate
    /\ feed' = [feed EXCEPT !.updated = FALSE, !.i = @ + 1]
    /\ now' = now + feed.spacing

NextFeed ==
    \/ FeedUpdate /\ UNCHANGED <<clock, hist, limiter, looper, extra>>
    \/ FeedRate /\ UNCHANGED <<clock, hist, limiter, looper, extra>>

SpecFeed == InitFeed /\ [][NextFeed]_vars

\* C28: fed values that grow by c per update, the updates being d apart,
\* rate() returns exactly c / d after every update from the second on, and
\* 0 after the first: with update() in every iteration (c = 1) and with
\* update(i) in every Stride-th iteration (c = Stride).
C28_ConstantFeedGivesItsRate ==
    mlast.op = "rate" =>
        LET c == feed.every
            d == feed.every * feed.spacing
        IN  /\ feed.updates = 1 => mlast.ret = zero
            /\ feed.updates >= 2 =>
                  /\ mlast.ret.num * d = c * mlast.ret.den
                  /\ mlast.ret = quotient(c, d)

\* fed with update(i) in every Stride-th iteration, the meter has trimmed
\* its samples, and the rate asked in an iteration without update is c / d
C28_Witness ==
    /\ mlast.op = "rate"
    /\ mlast.trimmed
    /\ feed.every = Stride
    /\ feed.updates >= 3
    /\ (feed.i - 1) % Stride # 0
    /\ now > meter.interval
    /\ mlast.ret = quotient(1, feed.spacing)

-----------------------------------------------------------------------------
(* The life of one Throttle: polls, waits, loops and restarts in any order *)

\* a clock of the shortest or of the longest interval
InitLife == InitClock /\ th.interval \in {1, MaxInterval}

\* the operations begun on the Throttle in one behaviour
MaxOps == 3

\* the history variables this specification leaves alone
histLife == <<t0, nwaits, ntrue, run, snap, waited>>

\* the history of an operation that has begun; reached: it got to _check,
\* which runs restart() on an unset reference; trues, waits: the ticks it
\* has counted
Begun(reached, trues, waits) ==
    LET base == IF reached /\ th.t_start = None
                THEN [since EXCEPT !.itrues = 0, !.iwaits = 0]
                ELSE since
    IN  since' = [base EXCEPT !.n = @ + 1,
                              !.begun = @ + 1,
                              !.checked = @ + (IF reached THEN 1 ELSE 0),
                              !.trues = @ + trues, !.itrues = @ + trues,
                              !.waits = @ + waits, !.iwaits = @ + waits]

\* the history of a suspended wait that has completed
Completed == since' = [since EXCEPT !.waits = @ + 1, !.iwaits = @ + 1]

\* the history of a restart() call of a client
Restarted == since' = [NoSince EXCEPT !.n = since.n + 1]

\* the arguments of loop / aloop explored: max_ticks alone, and both
LifeArgs == {<<Some(1), None>>, <<Some(1), Some(1)>>}

\* a call of loop or aloop; a generator that has been run and is not
\* suspended may be abandoned
LifeLoopCall ==
    /\ gen.state \notin {"created", "waiting"}
    /\ \E kind \in {"loop", "aloop"}, a \in LifeArgs :
          gen' = generator(kind, a[1], a[2])
    /\ yielded' = << >>
    /\ UNCHANGED <<now, th, last>>

\* the retrieval got to a _check: the one of the start of the body or the
\* one of its wait
ReachedCheck ==
    \/ gen'.state \in {"yielded", "waiting"}
    \/ gen.state = "created" /\ gen'.state = "finished"

MayBegin == since.n < MaxOps

NextLife ==
    \/ /\ now < MaxReading
       /\ Advance
       /\ UNCHANGED <<hist, notClock>>
    \/ /\ MayBegin
       /\ \E a \in BOOLEAN, e \in BOOLEAN : Elapsed(a, e)
       /\ Begun(TRUE, IF last'.ret /\ last'.auto_reset THEN 1 ELSE 0, 0)
       /\ UNCHANGED <<histLife, notClock>>
    \/ /\ MayBegin
       /\ WaitNext
       /\ Begun(TRUE, 0, 1)
       /\ UNCHANGED <<histLife, notClock>>
    \/ /\ MayBegin
       /\ AwaitNext(1)
       /\ Begun(TRUE, 0, 0)
       /\ UNCHANGED <<histLife, notClock>>
    \/ /\ AwaitReturn(1)
       /\ Completed
       /\ UNCHANGED <<histLife, notClock>>
    \/ /\ Cancel(1)
       /\ UNCHANGED <<hist, notClock>>
    \/ /\ MayBegin
       /\ Restart
       /\ Restarted
       /\ UNCHANGED <<histLife, notClock>>
    \/ /\ MayBegin
       /\ LifeLoopCall
       /\ UNCHANGED <<pending, hist, limiter, runs, rater, extra>>
    \/ /\ MayBegin
       /\ LoopNext
       /\ Begun(ReachedCheck, 0, IF gen'.state = "yielded" THEN 1 ELSE 0)
       /\ UNCHANGED <<pending, histLife, limiter, runs, rater, extra>>
    \/ /\ MayBegin
       /\ ALoopNext
       /\ Begun(ReachedCheck, 0, 0)
       /\ UNCHANGED <<pending, histLife, limiter, runs, rater, extra>>
    \/ /\ ALoopYield
       /\ Completed
       /\ UNCHANGED <<pending, histLife, limiter, runs, rater, extra>>

SpecLife == InitLife /\ [][NextLife]_vars

\* C32 as stated: in every reachable state the tick count is the number of
\* elapsed(auto_reset=true) calls that returned true plus the number of
\* wait_next / await_next calls that completed since construction or the
\* last restart() call.
C32_TicksSinceRestartCall == th.ticks = since.trues + since.waits

\* C32, amended: the tick count is a non-negative integer, the number of
\* elapsed(auto_reset=true) calls that returned true plus the number of
\* wait_next / await_next calls that completed since the latest execution
\* of restart(): by the constructor, by a client, or by _check when a
\* timing operation finds the reference unset.
C32_TicksSinceRestartRan ==
    /\ th.ticks \in Nat
    /\ th.ticks = since.itrues + since.iwaits

\* a wait begun before a restart() call has completed after it, a later
\* operation has set the reference again, and polls and waits have been
\* counted
C32_Witness ==
    /\ since.waits > since.iwaits
    /\ th.t_start # None
    /\ th.ticks = since.itrues + since.iwaits
    /\ th.ticks >= 1

\* C34 as stated: the reference is unset iff no timing operation (elapsed,
\* wait_next, await_next, a retrieval from loop / aloop) has been started
\* since construction or the last restart() call.
C34_UnsetIffNothingStarted == (th.t_start = None) <=> (since.begun = 0)

\* C34, amended: the reference is unset iff no timing operation has got to
\* its _check since construction or the last restart() call; every elapsed,
\* wait_next and await_next call gets there, a retrieval from loop / aloop
\* does unless it raises ValueError for its arguments or ends the sequence
\* without a wait.
C34_UnsetIffNothingChecked == (th.t_start = None) <=> (since.checked = 0)

\* after a restart() call, a retrieval has raised ValueError and left the
\* reference unset
C34_Witness ==
    /\ th.t_start = None
    /\ since.begun > 0
    /\ since.checked = 0
    /\ since.n > since.begun
    /\ gen.state = "raised"


-----------------------------------------------------------------------------
(* One Metronome instance: polls, waits, first retrievals and restarts *)

\* the values of the interval argument and of the seconds argument: not
\* given, zero, and the intervals of the clock
Seconds == {None, Some(0)} \cup {Some(i) : i \in Intervals}

InitMet ==
    /\ now = 0
    /\ th = Throttle(1)
    /\ pending = [k \in Tasks |-> None]
    /\ last = NoOp
    /\ t0 = None
    /\ nwaits = 0
    /\ ntrue = 0
    /\ run = NoRun
    /\ snap = NoSnap
    /\ lim = throttle(1, 1, FALSE, "value")
    /\ lim2 = None
    /\ susp = [k \in Tasks |-> None]
    /\ calls = << >>
    /\ gen = NoGen
    /\ yielded = << >>
    /\ runs = << >>
    /\ waited = << >>
    /\ since = NoSince
    /\ twin = NoTwin
    /\ met \in {[self |-> Metronome(i), task |-> None] : i \in Seconds}
    /\ mop = NoMetOp
    /\ meter = RateMeter(1)
    /\ mlast = NoMeterOp
    /\ feed = NoFeed

\* the history of a Metronome operation: the instance it found, its
\* argument, whether it raised, when it was called and when control came
\* back to the caller
MetOp(op, seconds, raised) ==
    mop' = [op |-> op, pre |-> met.self, seconds |-> seconds,
            raised |-> raised, t |-> now, back |-> now', n |-> mop.n + 1]

\* the operations begun on the Metronome in one behaviour
MaxMetOps == 2

MetMayBegin == mop.n < MaxMetOps

\* a call of Metronome.elapsed(seconds, auto_reset, exact)
MetElapsed ==
    \E seconds \in Seconds, auto_reset \in BOOLEAN, exact \in BOOLEAN,
       rd \in FirstReads(met.self), d3 \in Lags :
        \E t3 \in {rd[2] + d3},
           r \in {Metronome_elapsed(met.self, seconds, auto_reset, exact,
                                    rd[1], rd[2], rd[2] + d3)} :
            /\ (r.raised => rd[2] = now /\ d3 = 0)
            /\ (d3 > 0 => ~r.raised /\ r.ret /\ auto_reset /\ ~exact)
            /\ t3 <= MaxReading
            /\ met' = [met EXCEPT !.self = r.self]
            /\ now' = t3
            /\ MetOp("elapsed", seconds, r.raised)

\* a call of Metronome.sleep_until_available(seconds), which blocks the
\* thread until it returns
MetSleep ==
    \E seconds \in Seconds, rd \in FirstReads(met.self), over \in Lags :
        \E r \in {sleep_until_available(met.self, seconds, rd[1], rd[2],
                                        over)} :
            /\ (r.raised => rd[2] = now)
            /\ (over > 0 => ~r.raised /\ r.wake > rd[2] + over)
            /\ r.wake <= MaxReading
            /\ met' = [met EXCEPT !.self = r.self]
            /\ now' = r.wake
            /\ MetOp("sleep_until_available", seconds, r.raised)

\* a task calls Metronome.wait_until_available(seconds) and is suspended in
\* asyncio.sleep, unless the call raises
MetWait ==
    /\ met.task = None
    /\ \E seconds \in Seconds, rd \in FirstReads(met.self) :
        \E r \in {wait_until_available(met.self, seconds, rd[1], rd[2])} :
            /\ (r.raised => rd[2] = now)
            /\ r.wake <= MaxReading
            /\ met' = [self |-> r.self,
                       task |-> IF r.raised THEN None ELSE Some(r.wake)]
            /\ now' = IF r.raised THEN now ELSE rd[2]
            /\ MetOp("wait_until_available", seconds, r.raised)

\* the asyncio.sleep of the task has ended: wait_until_available counts its
\* tick and returns
MetWaitReturn ==
    /\ met.task # None
    /\ now >= Val(met.task)
    /\ met' = [self |-> [met.self EXCEPT !.ticks = @ + 1], task |-> None]
    /\ mop' = [mop EXCEPT !.op = "wait_return", !.pre = met.self,
                          !.seconds = None, !.raised = FALSE, !.t = now,
                          !.back = now]
    /\ UNCHANGED now

\* the first retrieval from Metronome.sleep_loop(seconds, max_ticks)
MetSleepLoop ==
    \E seconds \in Seconds, max_ticks \in {None, Some(0), Some(1)},
       rd \in FirstReads(met.self), over \in Lags :
        \E r \in {sleep_loop(met.self, seconds, max_ticks, rd[1], rd[2],
                             over)} :
            /\ (r.yields = << >> => rd[2] = now)
            /\ (over > 0 => r.yields # << >> /\ r.wake > rd[2] + over)
            /\ r.wake <= MaxReading
            /\ met' = [met EXCEPT !.self = r.self]
            /\ now' = r.wake
            /\ MetOp("sleep_loop", seconds, r.raised)

\* the first retrieval from Metronome.wait_loop(seconds, max_ticks), up to
\* its suspension in wait_until_available
MetWaitLoop ==
    /\ met.task = None
    /\ \E seconds \in Seconds, max_ticks \in {None, Some(0), Some(1)},
          rd \in FirstReads(met.self) :
        \E r \in {wait_loop(met.self, seconds, max_ticks, rd[1], rd[2])} :
            /\ (~r.suspended => rd[2] = now)
            /\ r.wake <= MaxReading
            /\ met' = [self |-> r.self,
                       task |-> IF r.suspended THEN Some(r.wake) ELSE None]
            /\ now' = IF r.suspended THEN rd[2] ELSE now
            /\ MetOp("wait_loop", seconds, r.raised)

\* a call of Metronome.restart
MetRestart ==
    /\ met' = [met EXCEPT !.self = Metronome_restart(@)]
    /\ UNCHANGED now
    /\ MetOp("restart", None, FALSE)

notMet == <<clock, hist, limiter, looper, rater, twin>>

NextMet ==
    \/ now < MaxReading /\ Advance /\ UNCHANGED <<hist, notClock>>
    \/ MetMayBegin /\ MetElapsed /\ UNCHANGED notMet
    \/ MetMayBegin /\ MetSleep /\ UNCHANGED notMet
    \/ MetMayBegin /\ MetWait /\ UNCHANGED notMet
    \/ MetWaitReturn /\ UNCHANGED notMet
    \/ MetMayBegin /\ MetSleepLoop /\ UNCHANGED notMet
    \/ MetMayBegin /\ MetWaitLoop /\ UNCHANGED notMet
    \/ MetMayBegin /\ MetRestart /\ UNCHANGED notMet

SpecMet == InitMet /\ [][NextMet]_vars

\* the timing operations of Metronome
MetTimingOps ==
    {"elapsed", "sleep_until_available", "wait_until_available",
     "sleep_loop", "wait_loop"}

\* C33: a timing operation of a Metronome (elapsed, sleep_until_available,
\* wait_until_available, the first retrieval from sleep_loop / wait_loop)
\* invoked when neither the interval of the instance nor the seconds of the
\* call is set raises ValueError at once: the time reference is not
\* initialized, the tick count does not change, nothing waits.
C33_NoIntervalRaises ==
    (/\ mop.op \in MetTimingOps
     /\ mop.pre.interval = None
     /\ mop.seconds = None) =>
        /\ mop.raised
        /\ met.self = mop.pre
        /\ mop.back = mop.t
        /\ mop.op \in {"wait_until_available", "wait_loop"} => met.task = None

\* after another operation, the first retrieval from wait_loop has raised
\* on a Metronome without interval, whose reference is still unset
C33_Witness ==
    /\ mop.op = "wait_loop"
    /\ mop.pre.interval = None
    /\ mop.seconds = None
    /\ mop.raised
    /\ met.self.t_start = None
    /\ met.task = None
    /\ mop.n >= 2

-----------------------------------------------------------------------------
(* Concurrent callers of one function decorated with athrottle(wait=True) *)

\* the calls made in one behaviour
MaxQueued == 4

InitQueue == InitBlocking /\ lim.deco = "athrottle"

QueueCall(k) ==
    /\ Made < MaxQueued
    /\ ACall(k)
    /\ AwrapperCalled(k)
    /\ UNCHANGED <<th, pending, lim2, nwaits, ntrue, run, snap, waited, since,
                   looper, rater, extra>>

NextQueue ==
    \/ Tick
    \/ \E k \in Tasks : QueueCall(k)
    \/ \E k \in Tasks : BlockingAResume(k)

SpecQueue == InitQueue /\ [][NextQueue]_vars

\* the wake target of the suspended call of task k
TargetOf(k) == Val(susp[k]).t_target

\* C39: under concurrent callers of a function decorated with
\* athrottle(wait=True), every call that finds the limit exceeded gets a
\* wake target of its own, one interval after the reference it found; the
\* targets of two pending calls are at least one interval apart; and the
\* call calls func no earlier than its own target.
C39_QueuedCallsOnePerBoundary ==
    /\ \A j, k \in Tasks :
          (j # k /\ susp[j] # None /\ susp[k] # None) =>
              abs(TargetOf(j) - TargetOf(k)) >= lim.throttle_.interval
    /\ \A k \in Tasks :
          susp[k] # None =>
              /\ Val(susp[k]).wake >= TargetOf(k)
              /\ TargetOf(k) <= Val(lim.throttle_.t_start)
    /\ last.op = "suspended" =>
          /\ last.t_target = RefAfterCheck(last) + lim.throttle_.interval
          /\ lim.throttle_.t_start = Some(last.t_target)
          /\ \E k \in Tasks : susp[k] # None /\ TargetOf(k) = last.t_target
    /\ (last.op = "awrapper" /\ last.ret) =>
          /\ calls[Len(calls)].at >= last.t_target
          /\ calls[Len(calls)].result = "func()"

\* with a limit of 2, two calls are pending at the same time, with targets
\* one interval apart
C39_Witness ==
    /\ lim.limit = 2
    /\ susp[1] # None
    /\ susp[2] # None
    /\ TargetOf(2) = TargetOf(1) + lim.throttle_.interval
    /\ Len(calls) = 2

-----------------------------------------------------------------------------
(* The blocking operations and their suspending twins, run in step: every  *)
(* call is made on th, lim or gen and, at the same readings of the clock,  *)
(* on the twin, whose wait is a suspension that has ended when the         *)
(* blocking call returns.                                                  *)

\* the calls made in one behaviour
MaxTwinOps == 3

InitTwin ==
    /\ now = 0
    /\ th \in {Throttle(1), Throttle(MaxInterval)}
    /\ pending = [k \in Tasks |-> None]
    /\ last = NoOp
    /\ t0 = None
    /\ nwaits = 0
    /\ ntrue = 0
    /\ run = NoRun
    /\ snap = NoSnap
    /\ lim \in {throttle(l, th.interval, w, "value") :
                 l \in {1, MaxLimit}, w \in BOOLEAN}
    /\ lim2 = None
    /\ susp = [k \in Tasks |-> None]
    /\ calls = << >>
    /\ gen = NoGen
    /\ yielded = << >>
    /\ runs = << >>
    /\ waited = << >>
    /\ since = NoSince
    /\ met = NoMet
    /\ mop = NoMetOp
    /\ meter = RateMeter(1)
    /\ mlast = NoMeterOp
    /\ feed = NoFeed
    /\ twin = [NoTwin EXCEPT
                 !.th = th,
                 !.lim = athrottle(lim.limit, th.interval, lim.wait, "value")]

TwinMayCall == twin.n < MaxTwinOps

\* wait_next on th, await_next on its twin
TwinWait ==
    \E rd \in FirstReads(th), over \in Lags :
        \E b \in {wait_next(th, rd[1], rd[2], over)},
           a \in {await_next(twin.th, rd[1], rd[2])} :
            /\ (over > 0 => b.t_target > rd[2])
            /\ b.wake <= MaxTime
            /\ th' = b.self
            /\ now' = b.wake
            /\ twin' = [twin EXCEPT !.th = count_tick(a.self),
                                    !.op = "wait",
                                    !.target = a.t_target,
                                    !.btarget = b.t_target,
                                    !.n = @ + 1]
            /\ UNCHANGED <<pending, last, hist, limiter, looper, rater,
                           met, mop>>

\* a call of the function decorated with throttle, and of its twin
\* decorated with athrottle
TwinCall ==
    \E rd \in CallReads(lim), over \in Lags :
        \E b \in {wrapper(lim, rd[1], rd[2], rd[3], over)},
           a \in {awrapper(twin.lim, rd[1], rd[2], rd[3])},
           e \in {elapsed(lim.throttle_, TRUE, TRUE, rd[1], rd[2], rd[2])} :
            LET waited_ == b.c.throttle_.ticks # e.self.ticks
                suspended == a.result = "suspended"
            IN  /\ (rd[3] > rd[2] => waited_)
                /\ (over > 0 => waited_ /\ b.at > rd[3])
                /\ b.at <= MaxTime
                /\ lim' = b.c
                /\ now' = b.at
                /\ twin' = [twin EXCEPT
                      !.lim = IF suspended THEN awrapper_resumed(a.c)
                                           ELSE a.c,
                      !.op = IF waited_ THEN "call waited" ELSE "call",
                      !.target = IF suspended
                                 THEN Val(a.c.throttle_.t_start) ELSE 0,
                      !.btarget = IF waited_
                                  THEN Val(b.c.throttle_.t_start) ELSE 0,
                      !.result = IF suspended THEN "func()" ELSE a.result,
                      !.bresult = b.result,
                      !.n = @ + 1]
                /\ UNCHANGED <<clock, hist, lim2, susp, calls, looper, rater,
                               met, mop>>

\* a call of loop on th and of aloop on its twin, with the same arguments,
\* once the generators made before have been run
TwinLoopCall ==
    /\ gen.state # "created"
    /\ \E mt \in {None, Some(2)}, du \in {None, Some(1)} :
          /\ gen' = generator("loop", mt, du)
          /\ twin' = [twin EXCEPT !.gen = generator("aloop", mt, du),
                                  !.yielded = << >>,
                                  !.op = "loop"]
    /\ yielded' = << >>
    /\ UNCHANGED <<now, clock, hist, limiter, runs, rater, met, mop>>

\* the twin after one retrieval from its generator of aloop, made at the
\* reading t: to the ValueError, to the end of the generator, or through
\* the suspension in await_next to the yield
aloop_retrieved(w, t) ==
    LET s == IF w.gen.state = "created"
             THEN loop_start(w.gen, w.th, t)
             ELSE [g |-> loop_resume(w.gen), self |-> w.th]
        r == aloop_pass(s.g, s.self, t)
    IN  IF s.g.state = "raised"
        THEN [w EXCEPT !.gen = s.g, !.th = s.self]
        ELSE IF r.g.state = "waiting"
        THEN [w EXCEPT !.gen = [r.g EXCEPT !.state = "yielded"],
                       !.th = count_tick(r.self),
                       !.yielded = Append(@, r.g.ticks)]
        ELSE [w EXCEPT !.gen = r.g, !.th = s.self]

\* next() on the generator of loop, __anext__() on its twin
TwinNext ==
    /\ LoopNext
    /\ twin' = [aloop_retrieved(twin, now) EXCEPT !.op = "next", !.n = @ + 1]
    /\ UNCHANGED <<pending, hist, limiter, runs, rater, met, mop>>

NextTwin ==
    \/ now < MaxReading /\ Advance /\ UNCHANGED <<hist, notClock>>
    \/ TwinMayCall /\ TwinWait
    \/ TwinMayCall /\ TwinCall
    \/ TwinMayCall /\ TwinLoopCall
    \/ TwinMayCall /\ TwinNext

SpecTwin == InitTwin /\ [][NextTwin]_vars

\* the local variables of the frame of a generator of loop / aloop
Frame(g) ==
    [state |-> g.state, max_ticks |-> g.max_ticks, ticks |-> g.ticks,
     waits |-> g.waits]

\* C36: for the same calls at the same clock readings, wait_next and
\* await_next, loop and aloop, throttle and athrottle with a plain value
\* for on_fail leave the same reference, tick count and call_counter, yield
\* and return the same, and compute the same wake targets.
C36_SameTimingMath ==
    /\ twin.th = th
    /\ twin.lim.throttle_ = lim.throttle_
    /\ twin.lim.call_counter = lim.call_counter
    /\ twin.target = twin.btarget
    /\ twin.result = twin.bresult
    /\ Frame(twin.gen) = Frame(gen)
    /\ twin.yielded = yielded

\* after waits on the clock and retrievals from the generators, a call of
\* the decorated function has waited for its target
C36_Witness ==
    /\ twin.op = "call waited"
    /\ twin.target > 0
    /\ twin.target = twin.btarget
    /\ twin.th = th
    /\ th.ticks >= 1
    /\ Len(yielded) >= 1
    /\ twin.yielded = yielded

====
